---------------------------- MODULE Spec2Model ----------------------------
(***************************************************************************)
(* Dairy-delivery ledger: the order store, the Orders page (create, edit,  *)
(* delete), the Customer-detail page (payment recording), the Statement    *)
(* page, the Box-calculator page and the daily summaries they derive from  *)
(* the orders.                                                             *)
(* Money is counted in whole units of the currency; an                     *)
(* order's created_at is the number the store handed out when it inserted  *)
(* the row, so later rows have larger created_at.                          *)
(***************************************************************************)
EXTENDS Integers, Sequences, FiniteSets, TLC

VARIABLES
    orders,              \* useAuth().orders: the DailyOrder rows, newest first
    products,            \* useAuth().products: sequence of [id, name, price]
    customers,           \* useAuth().customers: the ids, a customer's name
                         \* being the rank of its id
    nextId,              \* next id / created_at the store hands out
    calls,               \* store requests in flight
    boxConfigs,          \* useLocalStorage('boxConfigs'): pcs/box by product id
    page,                \* mounted page: "orders" | "customer" | "statement"
                         \* | "boxes"
    selectedDate,        \* Orders: selectedDate
    showOrderForm,       \* Orders: showOrderForm
    selectedCustomer,    \* Orders: selectedCustomer (NoCustomer = null)
    orderItems,          \* Orders: orderItems
    editingSummary,      \* Orders: editingSummary (NoSummary = null)
    editingOrderItems,   \* Orders: editingOrderItems
    deleteConfirmation,  \* Orders: deleteConfirmation
    ordersSubmitting,    \* Orders: isSubmitting
    id,                  \* CustomerDetail: route parameter id
    paymentModal,        \* CustomerDetail: paymentModal [show, summary]
    paymentAmount,       \* CustomerDetail: paymentAmount (text of the input)
    isSubmitting,        \* CustomerDetail: isSubmitting
    startDate,           \* Statement: startDate
    endDate,             \* Statement: endDate
    selectedCustomerId,  \* Statement: selectedCustomerId (AllCustomers = 'all')
    generatedStatement,  \* Statement: generatedStatement
    sheetApiUrl,         \* Statement: useLocalStorage('googleSheetApiUrl')
    isSyncing,           \* Statement: isSyncing
    syncStatus,          \* Statement: syncStatus (NoStatus = null)
    isTesting,           \* Statement: isTesting
    testStatus,          \* Statement: testStatus (NoStatus = null)
    fetches,             \* requests to the sheet service in flight
    session2,            \* the Record Payment dialog of a second session on
                         \* the same store
    lastSave,            \* history: the latest run of handleSavePayment
    overpaid             \* history: customer-days with a confirmed overpayment

vars == <<orders, products, customers, nextId, boxConfigs, calls, page, selectedDate, showOrderForm,
          selectedCustomer, orderItems, editingSummary, editingOrderItems,
          deleteConfirmation, ordersSubmitting, id, paymentModal,
          paymentAmount, isSubmitting, startDate, endDate, selectedCustomerId,
          generatedStatement, sheetApiUrl, isSyncing, syncStatus, isTesting,
          testStatus, fetches, session2, lastSave, overpaid>>

storeVars  == <<orders, products, customers, nextId, boxConfigs, session2>>
ordersVars == <<selectedDate, showOrderForm, selectedCustomer, orderItems,
                editingSummary, editingOrderItems, deleteConfirmation,
                ordersSubmitting>>
detailVars == <<id, paymentModal, paymentAmount, isSubmitting>>
sheetVars  == <<sheetApiUrl, isSyncing, syncStatus, isTesting, testStatus,
                fetches>>
statementVars == <<startDate, endDate, selectedCustomerId, generatedStatement,
                   sheetVars>>
histVars   == <<lastSave, overpaid>>

(***************************************************************************)
(* Bounds of the model.                                                    *)
(***************************************************************************)
MaxAmount == 4        \* largest payment a user types
MaxTotal  == 3        \* largest total_amount of a drawn order
MaxPaid   == 2        \* largest amount_paid of a drawn order
MaxDrawn  == 2        \* most orders in a drawn store
MaxIds    == 2        \* rows the store inserts in one run of the machine
MaxItems  == 1        \* most line items in a form
MaxQty    == 1        \* largest quantity typed into a form

Dates     == {1, 2}
\* useLocalStorage('boxConfigs', {}): no product has an entry
NoBoxConfigs == <<>>

NoCustomer == 0
AllCustomers == 0

(***************************************************************************)
(* JavaScript numbers.  Finite amounts are integers; +Infinity, NaN and    *)
(* null are three values above every finite amount the model reaches.      *)
(***************************************************************************)
Infinity    == 10 ^ 6
NegInfinity == 0 - Infinity
NaN         == Infinity + 1
Null        == Infinity + 2

isNaN(x) == x = NaN

\* a + b
Plus(a, b) ==
    IF a = NaN \/ b = NaN THEN NaN
    ELSE IF a = Infinity /\ b = NegInfinity THEN NaN
    ELSE IF a = NegInfinity /\ b = Infinity THEN NaN
    ELSE IF a = Infinity \/ b = Infinity THEN Infinity
    ELSE IF a = NegInfinity \/ b = NegInfinity THEN NegInfinity
    ELSE a + b

\* a - b
Minus(a, b) ==
    IF a = NaN \/ b = NaN THEN NaN
    ELSE IF a = Infinity /\ b = Infinity THEN NaN
    ELSE IF a = NegInfinity /\ b = NegInfinity THEN NaN
    ELSE IF a = Infinity \/ b = NegInfinity THEN Infinity
    ELSE IF a = NegInfinity \/ b = Infinity THEN NegInfinity
    ELSE a - b

\* a > b, a <= b: false as soon as one side is NaN
Gt(a, b)  == a # NaN /\ b # NaN /\ a > b
Leq(a, b) == a # NaN /\ b # NaN /\ a <= b

\* Math.min that returns its first argument
MathMin_First(a, b) == a

\* Math.min(a, b)
MathMin(a, b) == IF a = NaN \/ b = NaN THEN NaN ELSE IF a <= b THEN a ELSE b

\* a * b
Times(a, b) ==
    IF a = NaN \/ b = NaN THEN NaN
    ELSE IF (a = Infinity \/ a = NegInfinity) /\ b = 0 THEN NaN
    ELSE IF (b = Infinity \/ b = NegInfinity) /\ a = 0 THEN NaN
    ELSE IF a = Infinity \/ a = NegInfinity
    THEN IF (a > 0) = (b > 0) THEN Infinity ELSE NegInfinity
    ELSE IF b = Infinity \/ b = NegInfinity
    THEN IF (a > 0) = (b > 0) THEN Infinity ELSE NegInfinity
    ELSE a * b

\* x || 0 that keeps a missing x
OrZero_KeepsMissing(x) == IF x = NaN \/ x = 0 THEN 0 ELSE x

\* x || 0
OrZero(x) == IF x = Null \/ x = NaN \/ x = 0 THEN 0 ELSE x

(***************************************************************************)
(* Text of the payment input and parseFloat.  A text is a sequence of      *)
(* characters; parseFloat reads an optional sign, then "Infinity" or the   *)
(* longest run of digits, and ignores what follows.                        *)
(***************************************************************************)
Digits == <<"0", "1", "2", "3", "4", "5", "6", "7", "8", "9">>

DigitValue(c) == (CHOOSE i \in 1..10 : Digits[i] = c) - 1

IsDigit(c) == \E i \in 1..10 : Digits[i] = c

InfinityText == <<"I", "n", "f", "i", "n", "i", "t", "y">>

RECURSIVE ToText(_)
\* String(n) for a non-negative integer n
ToText(n) == IF n < 10 THEN <<Digits[n + 1]>>
             ELSE ToText(n \div 10) \o <<Digits[(n % 10) + 1]>>

StartsWith(s, p) == Len(s) >= Len(p) /\ SubSeq(s, 1, Len(p)) = p

RECURSIVE DigitRun(_, _, _)
\* value of the digits of s from position i on, acc the value read so far
DigitRun(s, i, acc) ==
    IF i <= Len(s) /\ IsDigit(s[i])
    THEN DigitRun(s, i + 1, 10 * acc + DigitValue(s[i]))
    ELSE acc

parseUnsigned(s) ==
    IF StartsWith(s, InfinityText) THEN Infinity
    ELSE IF Len(s) >= 1 /\ IsDigit(s[1]) THEN DigitRun(s, 1, 0)
    ELSE NaN

parseFloat(s) ==
    IF Len(s) >= 1 /\ s[1] = "-"
    THEN LET u == parseUnsigned(Tail(s))
         IN  IF u = NaN THEN NaN ELSE Minus(0, u)
    ELSE parseUnsigned(s)

\* texts a user leaves in the payment input
AmountTexts ==
    {ToText(n) : n \in 1..MaxAmount}
    \cup {<<>>, <<"a">>, <<"0">>, <<"-", "2">>, <<"2", "k">>, InfinityText}

(***************************************************************************)
(* Sequence helpers: Array.prototype.filter, sort (stable), reduce.        *)
(***************************************************************************)
Filter(s, Keep(_)) ==
    LET F[i \in 0..Len(s)] ==
            IF i = 0 THEN <<>>
            ELSE IF Keep(s[i]) THEN Append(F[i - 1], s[i]) ELSE F[i - 1]
    IN  F[Len(s)]

\* x into the sorted s, after every element that Cmp does not put after it
Insert(s, x, Cmp(_, _)) ==
    LET later == {k \in 1..Len(s) : Cmp(s[k], x) > 0}
        at    == IF later = {} THEN Len(s) + 1
                 ELSE CHOOSE k \in later : \A j \in later : k <= j
    IN  SubSeq(s, 1, at - 1) \o <<x>> \o SubSeq(s, at, Len(s))

\* s.sort(Cmp): stable, Cmp(a, b) < 0 puts a first
Sort(s, Cmp(_, _)) ==
    LET F[i \in 0..Len(s)] ==
            IF i = 0 THEN <<>> ELSE Insert(F[i - 1], s[i], Cmp)
    IN  F[Len(s)]

\* s.reduce((sum, x) => sum + F(x), 0)
SumOver(s, F(_)) ==
    LET R[i \in 0..Len(s)] ==
            IF i = 0 THEN 0 ELSE Plus(R[i - 1], F(s[i]))
    IN  R[Len(s)]

\* the distinct K(x) of s, in the order of their first appearance
\* (the key order of an object filled while iterating s)
KeysOf(s, K(_)) ==
    LET F[i \in 0..Len(s)] ==
            IF i = 0 THEN <<>>
            ELSE IF \E j \in 1..Len(F[i - 1]) : F[i - 1][j] = K(s[i])
                 THEN F[i - 1] ELSE Append(F[i - 1], K(s[i]))
    IN  F[Len(s)]

\* [].concat(...s.map(F))
FlatMap(s, F(_)) ==
    LET R[i \in 0..Len(s)] ==
            IF i = 0 THEN <<>> ELSE R[i - 1] \o F(s[i])
    IN  R[Len(s)]

Range(s) == {s[i] : i \in DOMAIN s}

(***************************************************************************)
(* Records.  An OrderItem is [product_id, product_name, quantity, price,   *)
(* total]; a DailyOrder is [id, customer_id, customer_name, date, items,   *)
(* total_amount, amount_paid, created_at].  A date is the day's number, so *)
(* that new Date(date).getTime() grows with it; a name is its rank in the  *)
(* alphabet, so that localeCompare is the difference of two names.         *)
(***************************************************************************)
getTime(t) == t * 86400000

\* `${item.product_id}-${item.price}`
ItemKey(item) == ToText(item.product_id) \o <<"-">> \o ToText(item.price)

\* a.product_name.localeCompare(b.product_name), names being ranks
CompareNames(a, b) == a.product_name - b.product_name

\* AggregateStep that adds the quantity of a later item but not its total
AggregateStep_QuantityOnly(agg, item) ==
    IF \E k \in 1..Len(agg) : ItemKey(agg[k]) = ItemKey(item)
    THEN [k \in 1..Len(agg) |->
            IF ItemKey(agg[k]) = ItemKey(item)
            THEN [agg[k] EXCEPT !.quantity = Plus(@, item.quantity)]
            ELSE agg[k]]
    ELSE Append(agg, item)

\* the aggregatedItems object of customerDailySummaries and
\* getDailySummariesForStatement: one copy of the first item of each key,
\* the later ones added to its quantity and total
AggregateStep(agg, item) ==
    IF \E k \in 1..Len(agg) : ItemKey(agg[k]) = ItemKey(item)
    THEN [k \in 1..Len(agg) |->
            IF ItemKey(agg[k]) = ItemKey(item)
            THEN [agg[k] EXCEPT !.quantity = Plus(@, item.quantity),
                                !.total    = Plus(@, item.total)]
            ELSE agg[k]]
    ELSE Append(agg, item)

AggregatedItems(allItems) ==
    LET A[i \in 0..Len(allItems)] ==
            IF i = 0 THEN <<>> ELSE AggregateStep(A[i - 1], allItems[i])
    IN  A[Len(allItems)]

\* Object.values(aggregatedItems).sort(by product_name)
MergeItems(allItems) == Sort(AggregatedItems(allItems), CompareNames)

(***************************************************************************)
(* The same loop over objects.  A heap is a sequence of item objects, an   *)
(* object's reference its place in it; the items pushed to allItems are    *)
(* the objects of the orders, at references 1..Len(allItems).              *)
(* aggregatedItems is the list of its [key, ref] entries in the order the  *)
(* keys were added.                                                        *)
(***************************************************************************)
\* aggregatedItems[key] = item: the entry is the input object itself
CopyItem_SameObject(heap, ref) == [heap |-> heap, ref |-> ref]

\* { ...item }: a new object with the fields of heap[ref]
CopyItem(heap, ref) == [heap |-> Append(heap, heap[ref]), ref |-> Len(heap) + 1]

\* one turn of summary.allItems.forEach, on the item at reference i
AggregateOnHeapStep(st, i) ==
    LET item == st.heap[i]
        key  == ItemKey(item)
        hit  == {k \in 1..Len(st.agg) : st.agg[k].key = key}
    IN  IF hit # {}
        THEN LET r == st.agg[CHOOSE k \in hit : TRUE].ref
             IN  [st EXCEPT !.heap[r].quantity = Plus(@, item.quantity),
                            !.heap[r].total    = Plus(@, item.total)]
        ELSE LET c == CopyItem(st.heap, i)
             IN  [heap |-> c.heap,
                  agg  |-> Append(st.agg, [key |-> key, ref |-> c.ref])]

\* the heap and aggregatedItems after the forEach over allItems
AggregateOnHeap(allItems) ==
    LET A[i \in 0..Len(allItems)] ==
            IF i = 0 THEN [heap |-> allItems, agg |-> <<>>]
            ELSE AggregateOnHeapStep(A[i - 1], i)
    IN  A[Len(allItems)]

\* Object.values(aggregatedItems).sort(by product_name), read off the heap
RowsOnHeap(st) ==
    Sort([k \in 1..Len(st.agg) |-> st.heap[st.agg[k].ref]], CompareNames)

(***************************************************************************)
(* Customer detail: customerOrders and dailySummaries.                     *)
(***************************************************************************)
NewestDateFirst(a, b) == getTime(b.date) - getTime(a.date)

customerOrders(os, cid) ==
    Sort(Filter(os, LAMBDA o : o.customer_id = cid), NewestDateFirst)

\* the entry of groupedByDate for date d, with its balance
DetailSummary(cos, d) ==
    LET group == Filter(cos, LAMBDA o : o.date = d)
        totalAmount == SumOver(group, LAMBDA o : o.total_amount)
        totalPaid   == SumOver(group, LAMBDA o : OrZero(o.amount_paid))
    IN  [date        |-> d,
         orders      |-> group,
         totalAmount |-> totalAmount,
         totalPaid   |-> totalPaid,
         balance     |-> Minus(totalAmount, totalPaid),
         allItems    |-> FlatMap(group, LAMBDA o : o.items)]

dailySummaries(cos) ==
    LET dates == KeysOf(cos, LAMBDA o : o.date)
    IN  Sort([i \in 1..Len(dates) |-> DetailSummary(cos, dates[i])],
             NewestDateFirst)

NoSummary == [date |-> 0, orders |-> <<>>, totalAmount |-> 0, totalPaid |-> 0,
              balance |-> 0, allItems |-> <<>>]

(***************************************************************************)
(* Orders page: dailyOrders and customerDailySummaries.                    *)
(***************************************************************************)
dailyOrders(os, date) == Filter(os, LAMBDA o : o.date = date)

\* the entry of summaryMap for customer cid, its items merged
OrdersSummary(dos, cid) ==
    LET group == Filter(dos, LAMBDA o : o.customer_id = cid)
    IN  [customerId   |-> cid,
         customerName |-> group[1].customer_name,
         orderIds     |-> [i \in 1..Len(group) |-> group[i].id],
         allItems     |-> MergeItems(FlatMap(group, LAMBDA o : o.items)),
         totalAmount  |-> SumOver(group, LAMBDA o : o.total_amount),
         amountPaid   |-> SumOver(group, LAMBDA o : OrZero(o.amount_paid))]

CompareCustomerNames(a, b) == a.customerName - b.customerName

customerDailySummaries(dos) ==
    LET cids == KeysOf(dos, LAMBDA o : o.customer_id)
    IN  Sort([i \in 1..Len(cids) |-> OrdersSummary(dos, cids[i])],
             CompareCustomerNames)

NoOrdersSummary == [customerId |-> 0, customerName |-> 0, orderIds |-> <<>>,
                    allItems |-> <<>>, totalAmount |-> 0, amountPaid |-> 0]

(***************************************************************************)
(* Statement page: getDailySummariesForStatement, generateStatementData.   *)
(***************************************************************************)
\* the entry of groupedByDate for date d, its items merged, with its balance
StatementSummary(os, d) ==
    LET group == Filter(os, LAMBDA o : o.date = d)
        totalAmount == SumOver(group, LAMBDA o : o.total_amount)
        totalPaid   == SumOver(group, LAMBDA o : OrZero(o.amount_paid))
    IN  [date        |-> d,
         totalAmount |-> totalAmount,
         totalPaid   |-> totalPaid,
         allItems    |-> MergeItems(FlatMap(group, LAMBDA o : o.items)),
         balance     |-> Minus(totalAmount, totalPaid)]

getDailySummariesForStatement(os) ==
    LET dates == KeysOf(os, LAMBDA o : o.date)
    IN  Sort([i \in 1..Len(dates) |-> StatementSummary(os, dates[i])],
             NewestDateFirst)

OldestDateFirst(a, b) == getTime(a.date) - getTime(b.date)

\* a CustomerStatement whose pendingAmount forgets what was paid
CustomerStatement_PendingIsTotal(filteredOrders, cid) ==
    LET customerOrders_ == Filter(filteredOrders, LAMBDA o : o.customer_id = cid)
        totalAmount == SumOver(customerOrders_, LAMBDA o : o.total_amount)
        totalPaid   == SumOver(customerOrders_, LAMBDA o : OrZero(o.amount_paid))
    IN  [customerId    |-> cid,
         customerName  |-> customerOrders_[1].customer_name,
         orders        |-> Sort(customerOrders_, OldestDateFirst),
         totalAmount   |-> totalAmount,
         totalPaid     |-> totalPaid,
         pendingAmount |-> totalAmount]

\* the CustomerStatement of customer cid over the filtered orders
CustomerStatement(filteredOrders, cid) ==
    LET customerOrders_ == Filter(filteredOrders, LAMBDA o : o.customer_id = cid)
        totalAmount == SumOver(customerOrders_, LAMBDA o : o.total_amount)
        totalPaid   == SumOver(customerOrders_, LAMBDA o : OrZero(o.amount_paid))
    IN  [customerId    |-> cid,
         customerName  |-> customerOrders_[1].customer_name,
         orders        |-> Sort(customerOrders_, OldestDateFirst),
         totalAmount   |-> totalAmount,
         totalPaid     |-> totalPaid,
         pendingAmount |-> Minus(totalAmount, totalPaid)]

\* date.setUTCHours(0, 0, 0, 0) of a time in milliseconds
setUTCHours0(ms) == ms - (ms % 86400000)

\* a range test that leaves out the orders of the end date
isDateInRange_EndExclusive(order, start, end) ==
    LET orderDate == setUTCHours0(getTime(order.date))
    IN  /\ orderDate >= setUTCHours0(getTime(start))
        /\ orderDate < setUTCHours0(getTime(end))

\* orderDate >= start && orderDate <= end
isDateInRange(order, start, end) ==
    LET orderDate == setUTCHours0(getTime(order.date))
    IN  /\ orderDate >= setUTCHours0(getTime(start))
        /\ orderDate <= setUTCHours0(getTime(end))

\* forCustomerId === 'all' || order.customer_id === forCustomerId
isCustomerMatch(order, forCustomerId) ==
    forCustomerId = AllCustomers \/ order.customer_id = forCustomerId

generateStatementData(os, forCustomerId, start, end) ==
    LET filteredOrders ==
            Filter(os, LAMBDA o :
                /\ isDateInRange(o, start, end)
                /\ isCustomerMatch(o, forCustomerId))
        cids == KeysOf(filteredOrders, LAMBDA o : o.customer_id)
        customerStatements ==
            [i \in 1..Len(cids) |-> CustomerStatement(filteredOrders, cids[i])]
        grandTotalAmount == SumOver(customerStatements, LAMBDA cs : cs.totalAmount)
        grandTotalPaid   == SumOver(customerStatements, LAMBDA cs : cs.totalPaid)
    IN  [customerStatements |-> Sort(customerStatements, CompareCustomerNames),
         grandTotalAmount   |-> grandTotalAmount,
         grandTotalPaid     |-> grandTotalPaid,
         grandTotalPending  |-> Minus(grandTotalAmount, grandTotalPaid),
         totalOrders        |-> Len(filteredOrders)]

\* generatedStatement is [generated, result]; generated is false for null
NoStatement ==
    [generated |-> FALSE,
     result |-> [customerStatements |-> <<>>, grandTotalAmount |-> 0,
                 grandTotalPaid |-> 0, grandTotalPending |-> 0,
                 totalOrders |-> 0]]

handleGenerateStatement ==
    generatedStatement' =
        [generated |-> TRUE,
         result |-> generateStatementData(orders, selectedCustomerId,
                                          startDate, endDate)]

(***************************************************************************)
(* Statement: the state of the sync to the spreadsheet service, and the    *)
(* dialog of the second session, before anything has been done with them.  *)
(***************************************************************************)
\* syncStatus, testStatus: null
NoStatus == [type |-> "none", message |-> "none"]

\* useLocalStorage('googleSheetApiUrl', ''), useState(false), useState(null)
SheetIdle ==
    /\ sheetApiUrl = <<>>
    /\ isSyncing = FALSE
    /\ syncStatus = NoStatus
    /\ isTesting = FALSE
    /\ testStatus = NoStatus
    /\ fetches = <<>>

\* the second session has no dialog open
NoSession == [show |-> FALSE, summary |-> NoSummary, amount |-> 0,
              saved |-> FALSE]

(***************************************************************************)
(* Statement: handleSyncToGoogleSheet and handleTestConnection.            *)
(***************************************************************************)
\* a key that tells the days apart and not the customers
SyncKey_DateOnly(order) == ToText(order.date)

\* `${order.date}-${order.customer_id}`
SyncKey(order) == ToText(order.date) \o <<"-">> \o ToText(order.customer_id)

\* orders.filter(...) of handleSyncToGoogleSheet: the dates of the range,
\* both ends included
syncFilteredOrders(os, start, end) ==
    Filter(os, LAMBDA o : isDateInRange(o, start, end))

\* customerPeriodTotals[cid]: undefined (Null) for a customer without orders
customerPeriodTotals(filteredOrders, cid) ==
    LET mine == Filter(filteredOrders, LAMBDA o : o.customer_id = cid)
    IN  IF mine = <<>> THEN Null
        ELSE SumOver(mine, LAMBDA o : o.total_amount)

\* summary.products: product_name -> summed quantity, in insertion order
syncProducts(group) ==
    LET items == FlatMap(group, LAMBDA o : o.items)
        names == KeysOf(items, LAMBDA item : item.product_name)
    IN  [i \in 1..Len(names) |->
            [name |-> names[i],
             qty  |-> SumOver(Filter(items, LAMBDA item :
                                  item.product_name = names[i]),
                              LAMBDA item : item.quantity)]]

\* the entry of summaryMap under key
syncSummary(filteredOrders, key) ==
    LET group == Filter(filteredOrders, LAMBDA o : SyncKey(o) = key)
    IN  [date         |-> group[1].date,
         customerId   |-> group[1].customer_id,
         customerName |-> group[1].customer_name,
         products     |-> syncProducts(group),
         totalAmount  |-> SumOver(group, LAMBDA o : o.total_amount),
         amountPaid   |-> SumOver(group, LAMBDA o : OrZero(o.amount_paid))]

\* Array.from(summaryMap.values())
summaryMap(filteredOrders) ==
    LET keys == KeysOf(filteredOrders, SyncKey)
    IN  [i \in 1..Len(keys) |-> syncSummary(filteredOrders, keys[i])]

\* by customerName, then by date
CompareSyncSummaries(a, b) ==
    IF a.customerName < b.customerName THEN -1
    ELSE IF a.customerName > b.customerName THEN 1
    ELSE getTime(a.date) - getTime(b.date)

\* one row of the body; Products_Ordered keeps the (name, qty) pairs that the
\* code joins into "name (xqty), ..."
syncRow(filteredOrders, summary) ==
    [ID            |-> ToText(summary.date) \o <<"-">>
                           \o ToText(summary.customerId),
     Date          |-> summary.date,
     Customer_Name |-> summary.customerName,
     Products_Ordered |-> summary.products,
     Daily_Total   |-> summary.totalAmount,
     Daily_Paid    |-> summary.amountPaid,
     Daily_Pending |-> Minus(summary.totalAmount, summary.amountPaid),
     Customer_Total_for_Period |->
         OrZero(customerPeriodTotals(filteredOrders, summary.customerId))]

dataToSync(os, start, end) ==
    LET filteredOrders == syncFilteredOrders(os, start, end)
        sorted == Sort(summaryMap(filteredOrders), CompareSyncSummaries)
    IN  [i \in 1..Len(sorted) |-> syncRow(filteredOrders, sorted[i])]

\* sheetApiUrl.split('?')[0]
beforeQuery(url) ==
    LET marks == {i \in 1..Len(url) : url[i] = "?"}
    IN  IF marks = {} THEN url
        ELSE SubSeq(url, 1, (CHOOSE i \in marks : \A j \in marks : i <= j) - 1)

\* sheetApiUrl.split('?')[0] + '/count'
testUrl(url) == beforeQuery(url) \o <<"/", "c", "o", "u", "n", "t">>

\* a request to the sheet service; start and end are the range its rows were
\* computed for
SyncFetch(url, data, start, end) ==
    [owner |-> "handleSyncToGoogleSheet", method |-> "POST", url |-> url,
     data |-> data, start |-> start, end |-> end]

TestFetch(url) ==
    [owner |-> "handleTestConnection", method |-> "GET", url |-> url,
     data |-> <<>>, start |-> 0, end |-> 0]

\* a sync that posts whatever the URL input holds
handleSyncToGoogleSheet_NoUrlCheck ==
    /\ testStatus' = NoStatus
    /\ syncStatus' = NoStatus
    /\ isSyncing' = TRUE
    /\ fetches' = Append(fetches,
           SyncFetch(sheetApiUrl, dataToSync(orders, startDate, endDate),
                     startDate, endDate))
    /\ UNCHANGED <<sheetApiUrl, isTesting>>

\* handleSyncToGoogleSheet, up to its await
handleSyncToGoogleSheet ==
    LET filteredOrders == syncFilteredOrders(orders, startDate, endDate)
    IN  /\ testStatus' = NoStatus
        /\ IF sheetApiUrl = <<>>
           THEN /\ syncStatus' =
                       [type |-> "error",
                        message |-> "Please set your Google Sheet API URL first."]
                /\ isSyncing' = FALSE
                /\ fetches' = fetches
           ELSE IF Len(filteredOrders) = 0
           THEN /\ syncStatus' =
                       [type |-> "success",
                        message |-> "No data to sync in the selected date range."]
                /\ isSyncing' = FALSE
                /\ fetches' = fetches
           ELSE /\ syncStatus' = NoStatus
                /\ isSyncing' = TRUE
                /\ fetches' = Append(fetches,
                       SyncFetch(sheetApiUrl,
                                 dataToSync(orders, startDate, endDate),
                                 startDate, endDate))
        /\ UNCHANGED <<sheetApiUrl, isTesting>>

\* handleTestConnection, up to its await
handleTestConnection ==
    /\ syncStatus' = NoStatus
    /\ IF sheetApiUrl = <<>>
       THEN /\ testStatus' =
                   [type |-> "error",
                    message |-> "Please provide the Sheet API URL."]
            /\ isTesting' = FALSE
            /\ fetches' = fetches
       ELSE /\ testStatus' = NoStatus
            /\ isTesting' = TRUE
            /\ fetches' = Append(fetches, TestFetch(testUrl(sheetApiUrl)))
    /\ UNCHANGED <<sheetApiUrl, isSyncing>>

\* what the service can answer: response.ok, a status that is not ok, or no
\* response at all
FetchOutcomes == {"ok", "status", "network"}

\* the rest of handleSyncToGoogleSheet after its fetch settles
SettleSync(f, outcome) ==
    /\ syncStatus' =
           IF outcome = "ok"
           THEN [type |-> "success", message |-> "Successfully synced rows"]
           ELSE [type |-> "error", message |-> outcome]
    /\ isSyncing' = FALSE
    /\ UNCHANGED <<sheetApiUrl, isTesting, testStatus>>

\* the rest of handleTestConnection after its fetch settles
SettleTest(f, outcome) ==
    /\ testStatus' =
           IF outcome = "ok"
           THEN [type |-> "success", message |-> "Connection successful!"]
           ELSE [type |-> "error", message |-> outcome]
    /\ isTesting' = FALSE
    /\ UNCHANGED <<sheetApiUrl, isSyncing, syncStatus>>

(***************************************************************************)
(* handleSavePayment: the updates it computes from the modal's summary.    *)
(***************************************************************************)
OldestFirst(a, b) == getTime(a.created_at) - getTime(b.created_at)
NewestFirst(a, b) == getTime(b.created_at) - getTime(a.created_at)

orderBalance(o) == Minus(o.total_amount, OrZero(o.amount_paid))

\* pendingOrders with the newest order first
pendingOrders_NewestFirst(summary) ==
    Sort(Filter(summary.orders, LAMBDA o : Gt(orderBalance(o), 0)),
         NewestFirst)

pendingOrders(summary) ==
    Sort(Filter(summary.orders, LAMBDA o : Gt(orderBalance(o), 0)),
         OldestFirst)

\* AllocateStep writing the payment alone, without the amount already paid
AllocateStep_ForgetsPrior(st, order) ==
    IF Leq(st.amountToPay, 0) THEN st
    ELSE LET paymentForOrder == MathMin(st.amountToPay, orderBalance(order))
         IN  [updates |-> Append(st.updates,
                  [orderId |-> order.id, newAmountPaid |-> paymentForOrder]),
              amountToPay |-> Minus(st.amountToPay, paymentForOrder)]

\* one turn of the for loop over pendingOrders
AllocateStep(st, order) ==
    IF Leq(st.amountToPay, 0) THEN st
    ELSE LET paymentForOrder == MathMin(st.amountToPay, orderBalance(order))
         IN  [updates |-> Append(st.updates,
                  [orderId |-> order.id,
                   newAmountPaid |->
                       Plus(OrZero(order.amount_paid), paymentForOrder)]),
              amountToPay |-> Minus(st.amountToPay, paymentForOrder)]

AllocateLoop(pending, amountToPay) ==
    LET L[i \in 0..Len(pending)] ==
            IF i = 0 THEN [updates |-> <<>>, amountToPay |-> amountToPay]
            ELSE AllocateStep(L[i - 1], pending[i])
    IN  L[Len(pending)]

\* Leftover that forgets what the loop left
Leftover_Dropped(summary, st) == st.updates

\* Leftover that credits the first update instead of the last
Leftover_ToFirst(summary, st) ==
    IF Gt(st.amountToPay, 0) /\ Len(st.updates) > 0
    THEN [st.updates EXCEPT ![1].newAmountPaid = Plus(@, st.amountToPay)]
    ELSE IF Gt(st.amountToPay, 0)
    THEN LET sorted == Sort(summary.orders, NewestFirst)
         IN  IF Len(sorted) > 0
             THEN Append(st.updates,
                     [orderId |-> sorted[1].id,
                      newAmountPaid |->
                          Plus(OrZero(sorted[1].amount_paid), st.amountToPay)])
             ELSE st.updates
    ELSE st.updates

\* the leftover after the loop: to the last update, else to the newest order
Leftover(summary, st) ==
    IF Gt(st.amountToPay, 0) /\ Len(st.updates) > 0
    THEN [st.updates EXCEPT ![Len(st.updates)].newAmountPaid =
                                Plus(@, st.amountToPay)]
    ELSE IF Gt(st.amountToPay, 0)
    THEN LET sorted == Sort(summary.orders, NewestFirst)
         IN  IF Len(sorted) > 0
             THEN Append(st.updates,
                     [orderId |-> sorted[1].id,
                      newAmountPaid |->
                          Plus(OrZero(sorted[1].amount_paid), st.amountToPay)])
             ELSE st.updates
    ELSE st.updates

Allocate(summary, amountToPay) ==
    Leftover(summary, AllocateLoop(pendingOrders(summary), amountToPay))

\* the guard of lines 131-135: the amount is refused
Refused(amountToPay) == isNaN(amountToPay) \/ Leq(amountToPay, 0)

\* NeedsConfirm against the day's total instead of its balance
NeedsConfirm_AgainstTotal(summary, amountToPay) ==
    Gt(amountToPay, summary.totalAmount)

\* the test of line 138: window.confirm is asked
NeedsConfirm(summary, amountToPay) == Gt(amountToPay, summary.balance)

(***************************************************************************)
(* The Entity Store behind useAuth(): updateOrder, deleteOrder, addOrder.  *)
(* A request in flight is [op, orderId, amount_paid, order, owner, live,   *)
(* k]: owner is the handler that issued it, live says that the handler     *)
(* still awaits it, k tells equal requests in flight apart.  The order of  *)
(* an add is the row to insert; the order of a delete is what its handler  *)
(* holds in its closure to insert afterwards.                              *)
(***************************************************************************)
NoOrder == [id |-> 0, customer_id |-> 0, customer_name |-> 0, date |-> 0,
            items |-> <<>>,
            total_amount |-> 0, amount_paid |-> 0, created_at |-> 0]

MaxCalls == 2         \* most store requests in flight

UpdateCall(u, owner) ==
    [op |-> "update", orderId |-> u.orderId, amount_paid |-> u.newAmountPaid,
     order |-> NoOrder, owner |-> owner, live |-> TRUE, k |-> 0]

\* then is the order the awaiting handler inserts once its deletes succeeded
DeleteCall(orderId, owner, then) ==
    [op |-> "delete", orderId |-> orderId, amount_paid |-> 0,
     order |-> then, owner |-> owner, live |-> TRUE, k |-> 0]

AddCall(order, owner) ==
    [op |-> "add", orderId |-> 0, amount_paid |-> 0,
     order |-> order, owner |-> owner, live |-> TRUE, k |-> 0]

\* cs with the request c added, numbered apart from the equal ones in cs
Issue(cs, c) ==
    LET used == {d.k : d \in {e \in cs : [e EXCEPT !.live = TRUE, !.k = 0] = c}}
        free == (0..Cardinality(cs)) \ used
    IN  cs \cup {[c EXCEPT !.k = CHOOSE n \in free : \A m \in free : n <= m]}

IssueAll(cs, reqs) ==
    LET R[i \in 0..Len(reqs)] ==
            IF i = 0 THEN cs ELSE Issue(R[i - 1], reqs[i])
    IN  R[Len(reqs)]

\* the requests the awaiting handler no longer waits for
Orphaned(cs) == {[c EXCEPT !.live = FALSE] : c \in cs}

\* the rows after the request c has succeeded, n the id of a new row
StoreApply(os, c, n) ==
    IF c.op = "update"
    THEN [i \in 1..Len(os) |->
            IF os[i].id = c.orderId
            THEN [os[i] EXCEPT !.amount_paid = c.amount_paid] ELSE os[i]]
    ELSE IF c.op = "delete"
    THEN Filter(os, LAMBDA o : o.id # c.orderId)
    ELSE <<[c.order EXCEPT !.id = n, !.created_at = n]>> \o os

(***************************************************************************)
(* Customer detail: the Record Payment dialog.                             *)
(***************************************************************************)
ClosedModal == [show |-> FALSE, summary |-> NoSummary]

NoSave == [text |-> <<>>, amount |-> 0, summary |-> NoSummary,
           outcome |-> "none", asked |-> FALSE, answer |-> FALSE,
           updates |-> <<>>,
           pre  |-> [orders |-> <<>>, calls |-> {}, isSubmitting |-> FALSE,
                     paymentModal |-> ClosedModal],
           post |-> [orders |-> <<>>, calls |-> {}, isSubmitting |-> FALSE,
                     paymentModal |-> ClosedModal]]

\* what a run of handleSavePayment saw and left behind; asked and answer
\* tell whether window.confirm was shown and what the user answered
SaveRecord(outcome, amount, asked, answer, updates) ==
    [text |-> paymentAmount, amount |-> amount,
     summary |-> paymentModal.summary, outcome |-> outcome,
     asked |-> asked, answer |-> answer, updates |-> updates,
     pre  |-> [orders |-> orders, calls |-> calls,
               isSubmitting |-> isSubmitting, paymentModal |-> paymentModal],
     post |-> [orders |-> orders', calls |-> calls',
               isSubmitting |-> isSubmitting', paymentModal |-> paymentModal']]

handleOpenPaymentModal(summary) ==
    /\ paymentModal' = [show |-> TRUE, summary |-> summary]
    /\ paymentAmount' = <<>>

\* onChange of the amount input
setPaymentAmount(text) == paymentAmount' = text

\* the Cancel button of the dialog
CancelPayment == paymentModal' = ClosedModal

\* handleSavePayment that allocates on the day's orders as the store holds
\* them now, not as the dialog was opened on them
handleSavePayment_FromStore(confirmAnswer) ==
    LET summary     == IF paymentModal.summary = NoSummary THEN NoSummary
                       ELSE DetailSummary(customerOrders(orders, id),
                                          paymentModal.summary.date)
        amountToPay == parseFloat(paymentAmount)
        updates     == Allocate(summary, amountToPay)
        requests    == [i \in 1..Len(updates) |-> UpdateCall(updates[i], "handleSavePayment")]
    IN  IF summary = NoSummary
        THEN UNCHANGED <<calls, detailVars, histVars>>
        ELSE IF Refused(amountToPay)
        THEN /\ UNCHANGED <<calls, detailVars, overpaid>>
             /\ lastSave' = SaveRecord("rejected", amountToPay, FALSE, FALSE, <<>>)
        ELSE IF NeedsConfirm(summary, amountToPay) /\ ~confirmAnswer
        THEN /\ UNCHANGED <<calls, detailVars, overpaid>>
             /\ lastSave' = SaveRecord("declined", amountToPay, TRUE, FALSE, <<>>)
        ELSE /\ calls' = IssueAll(calls, requests)
             /\ id' = id
             /\ IF Len(updates) = 0
                THEN /\ paymentModal' = ClosedModal
                     /\ paymentAmount' = <<>>
                     /\ isSubmitting' = FALSE
                ELSE /\ isSubmitting' = TRUE
                     /\ UNCHANGED <<paymentModal, paymentAmount>>
             /\ overpaid' =
                    IF NeedsConfirm(summary, amountToPay)
                    THEN overpaid \cup {<<id, summary.date>>}
                    ELSE overpaid
             /\ lastSave' = SaveRecord("issued", amountToPay,
                                NeedsConfirm(summary, amountToPay),
                                NeedsConfirm(summary, amountToPay) /\ confirmAnswer,
                                updates)

\* handleSavePayment up to its await; confirmAnswer is what window.confirm
\* returns if it is asked
handleSavePayment(confirmAnswer) ==
    LET summary     == paymentModal.summary
        amountToPay == parseFloat(paymentAmount)
        updates     == Allocate(summary, amountToPay)
        requests    == [i \in 1..Len(updates) |-> UpdateCall(updates[i], "handleSavePayment")]
    IN  IF summary = NoSummary
        THEN UNCHANGED <<calls, detailVars, histVars>>
        ELSE IF Refused(amountToPay)
        THEN /\ UNCHANGED <<calls, detailVars, overpaid>>
             /\ lastSave' = SaveRecord("rejected", amountToPay, FALSE, FALSE, <<>>)
        ELSE IF NeedsConfirm(summary, amountToPay) /\ ~confirmAnswer
        THEN /\ UNCHANGED <<calls, detailVars, overpaid>>
             /\ lastSave' = SaveRecord("declined", amountToPay, TRUE, FALSE, <<>>)
        ELSE /\ calls' = IssueAll(calls, requests)
             /\ id' = id
             /\ IF Len(updates) = 0
                THEN \* Promise.all([]) is fulfilled at once
                     /\ paymentModal' = ClosedModal
                     /\ paymentAmount' = <<>>
                     /\ isSubmitting' = FALSE
                ELSE /\ isSubmitting' = TRUE
                     /\ UNCHANGED <<paymentModal, paymentAmount>>
             /\ overpaid' =
                    IF NeedsConfirm(summary, amountToPay)
                    THEN overpaid \cup {<<id, summary.date>>}
                    ELSE overpaid
             /\ lastSave' = SaveRecord("issued", amountToPay,
                                NeedsConfirm(summary, amountToPay),
                                NeedsConfirm(summary, amountToPay) /\ confirmAnswer,
                                updates)

\* isSubmitting set back at the end of the try block and not in a finally
SettlePayment_NoFinally(ok) ==
    /\ isSubmitting' = ~ok
    /\ id' = id
    /\ IF ok THEN paymentModal' = ClosedModal /\ paymentAmount' = <<>>
       ELSE UNCHANGED <<paymentModal, paymentAmount>>

\* what follows the await of handleSavePayment: the dialog is closed when
\* every update succeeded, kept when one failed; isSubmitting ends false
SettlePayment(ok) ==
    /\ isSubmitting' = FALSE
    /\ id' = id
    /\ IF ok THEN paymentModal' = ClosedModal /\ paymentAmount' = <<>>
       ELSE UNCHANGED <<paymentModal, paymentAmount>>


(***************************************************************************)
(* Orders page: the add form, the edit dialog and the delete dialog.  A    *)
(* form item is an OrderItem; the page finds it by its clientId, the model *)
(* by its place in the list.                                               *)
(***************************************************************************)
QtyTexts == {ToText(n) : n \in 0..MaxQty} \cup {<<>>}

ItemsOf(isEditing) == IF isEditing THEN editingOrderItems ELSE orderItems

\* setState of handleAddOrderItem, handleRemoveOrderItem, handleUpdateOrderItem
SetItems(isEditing, items) ==
    IF isEditing
    THEN editingOrderItems' = items /\ orderItems' = orderItems
    ELSE orderItems' = items /\ editingOrderItems' = editingOrderItems

handleAddOrderItem(isEditing) ==
    IF Len(products) > 0
    THEN LET firstProduct == products[1]
             newItem == [product_id   |-> firstProduct.id,
                         product_name |-> firstProduct.name,
                         quantity     |-> 0,
                         price        |-> firstProduct.price,
                         total        |-> 0]
         IN  SetItems(isEditing, <<newItem>> \o ItemsOf(isEditing))
    ELSE UNCHANGED <<orderItems, editingOrderItems>>

handleRemoveOrderItem(i, isEditing) ==
    LET prev == ItemsOf(isEditing)
    IN  SetItems(isEditing, SubSeq(prev, 1, i - 1) \o SubSeq(prev, i + 1, Len(prev)))

\* the item handleUpdateOrderItem maps item to
UpdatedItem(item, field, value) ==
    LET found == Filter(products, LAMBDA p : p.id = value)
        updatedItem ==
            IF field = "product_id"
            THEN [item EXCEPT !.product_id   = found[1].id,
                              !.product_name = found[1].name,
                              !.price        = found[1].price,
                              !.quantity     = 1]
            ELSE [item EXCEPT !.quantity = OrZero(parseFloat(value))]
        current == Filter(products, LAMBDA p : p.id = updatedItem.product_id)
    IN  IF field = "product_id" /\ Len(found) = 0 THEN item
        ELSE IF Len(current) > 0
        THEN [updatedItem EXCEPT
                 !.price = current[1].price,
                 !.total = Times(updatedItem.quantity, current[1].price)]
        ELSE updatedItem

handleUpdateOrderItem(i, field, value, isEditing) ==
    LET prev == ItemsOf(isEditing)
    IN  SetItems(isEditing,
                 [prev EXCEPT ![i] = UpdatedItem(prev[i], field, value)])

\* the row handleSubmitOrder hands to addOrder
NewOrder ==
    [id |-> 0, customer_id |-> selectedCustomer,
     customer_name |-> selectedCustomer, date |-> selectedDate,
     items |-> orderItems,
     total_amount |-> SumOver(orderItems, LAMBDA item : item.total),
     amount_paid |-> 0, created_at |-> 0]

\* handleSubmitOrder up to its await
handleSubmitOrder ==
    IF selectedCustomer = NoCustomer \/ Len(orderItems) = 0
    THEN UNCHANGED <<calls, ordersVars>>
    ELSE /\ ordersSubmitting' = TRUE
         /\ calls' = Issue(calls, AddCall(NewOrder, "handleSubmitOrder"))
         /\ UNCHANGED <<selectedDate, showOrderForm, selectedCustomer,
                        orderItems, editingSummary, editingOrderItems,
                        deleteConfirmation>>

\* what follows the await of handleSubmitOrder
SettleSubmitOrder(ok) ==
    /\ ordersSubmitting' = FALSE
    /\ IF ok
       THEN /\ showOrderForm' = FALSE
            /\ selectedCustomer' = NoCustomer
            /\ orderItems' = <<>>
       ELSE UNCHANGED <<showOrderForm, selectedCustomer, orderItems>>
    /\ UNCHANGED <<selectedDate, editingSummary, editingOrderItems,
                   deleteConfirmation>>

handleOpenEditModal(summary) ==
    /\ editingSummary' = summary
    /\ editingOrderItems' = summary.allItems
    /\ showOrderForm' = FALSE

handleCloseEditModal ==
    /\ editingSummary' = NoOrdersSummary
    /\ editingOrderItems' = <<>>

\* a replacement that keeps the total of the summary as it keeps its payment
Replacement_KeepsTotal ==
    IF Len(editingOrderItems) > 0
    THEN [id |-> 0, customer_id |-> editingSummary.customerId,
          customer_name |-> editingSummary.customerName,
          date |-> selectedDate,
          items |-> editingOrderItems,
          total_amount |-> editingSummary.totalAmount,
          amount_paid |-> editingSummary.amountPaid, created_at |-> 0]
    ELSE NoOrder

\* the row handleSaveEdit hands to addOrder; NoOrder when no item is left
Replacement ==
    IF Len(editingOrderItems) > 0
    THEN [id |-> 0, customer_id |-> editingSummary.customerId,
          customer_name |-> editingSummary.customerName,
          date |-> selectedDate,
          items |-> editingOrderItems,
          total_amount |-> SumOver(editingOrderItems, LAMBDA item : item.total),
          amount_paid |-> editingSummary.amountPaid, created_at |-> 0]
    ELSE NoOrder

\* handleSaveEdit up to its first await
handleSaveEdit ==
    IF editingSummary = NoOrdersSummary
    THEN UNCHANGED <<calls, ordersVars>>
    ELSE /\ ordersSubmitting' = TRUE
         /\ calls' = IssueAll(calls,
                [i \in 1..Len(editingSummary.orderIds) |->
                    DeleteCall(editingSummary.orderIds[i], "handleSaveEdit",
                               Replacement)])
         /\ UNCHANGED <<selectedDate, showOrderForm, selectedCustomer,
                        orderItems, editingSummary, editingOrderItems,
                        deleteConfirmation>>

\* handleSaveEdit that inserts the replacement whatever became of the deletes
SettleSaveEditDeletes_AddsAnyway(ok, replacement, rest) ==
    IF replacement # NoOrder
    THEN /\ calls' = Issue(rest, AddCall(replacement, "handleSaveEdit"))
         /\ UNCHANGED ordersVars
    ELSE /\ calls' = rest
         /\ ordersSubmitting' = FALSE
         /\ IF ok THEN handleCloseEditModal
            ELSE UNCHANGED <<editingSummary, editingOrderItems>>
         /\ UNCHANGED <<selectedDate, showOrderForm, selectedCustomer,
                        orderItems, deleteConfirmation>>

\* handleSaveEdit between its two awaits: every delete succeeded (ok) and
\* replacement is inserted, or one failed
SettleSaveEditDeletes(ok, replacement, rest) ==
    IF ok /\ replacement # NoOrder
    THEN /\ calls' = Issue(rest, AddCall(replacement, "handleSaveEdit"))
         /\ UNCHANGED ordersVars
    ELSE /\ calls' = rest
         /\ ordersSubmitting' = FALSE
         /\ IF ok THEN handleCloseEditModal
            ELSE UNCHANGED <<editingSummary, editingOrderItems>>
         /\ UNCHANGED <<selectedDate, showOrderForm, selectedCustomer,
                        orderItems, deleteConfirmation>>

\* what follows the second await of handleSaveEdit
SettleSaveEditAdd(ok) ==
    /\ ordersSubmitting' = FALSE
    /\ IF ok THEN handleCloseEditModal
       ELSE UNCHANGED <<editingSummary, editingOrderItems>>
    /\ UNCHANGED <<selectedDate, showOrderForm, selectedCustomer, orderItems,
                   deleteConfirmation>>

NoConfirmation == [show |-> FALSE, summary |-> NoOrdersSummary]

handleDelete(summary) ==
    deleteConfirmation' = [show |-> TRUE, summary |-> summary]

\* confirmDelete that deletes the first order of the group only
confirmDelete_FirstOnly ==
    IF deleteConfirmation.summary = NoOrdersSummary
    THEN UNCHANGED <<calls, ordersVars>>
    ELSE /\ ordersSubmitting' = TRUE
         /\ calls' = Issue(calls,
                DeleteCall(deleteConfirmation.summary.orderIds[1],
                           "confirmDelete", NoOrder))
         /\ UNCHANGED <<selectedDate, showOrderForm, selectedCustomer,
                        orderItems, editingSummary, editingOrderItems,
                        deleteConfirmation>>

\* confirmDelete up to its await
confirmDelete ==
    IF deleteConfirmation.summary = NoOrdersSummary
    THEN UNCHANGED <<calls, ordersVars>>
    ELSE /\ ordersSubmitting' = TRUE
         /\ calls' = IssueAll(calls,
                [i \in 1..Len(deleteConfirmation.summary.orderIds) |->
                    DeleteCall(deleteConfirmation.summary.orderIds[i],
                               "confirmDelete", NoOrder)])
         /\ UNCHANGED <<selectedDate, showOrderForm, selectedCustomer,
                        orderItems, editingSummary, editingOrderItems,
                        deleteConfirmation>>

\* what follows the await of confirmDelete
SettleConfirmDelete(ok) ==
    /\ ordersSubmitting' = FALSE
    /\ IF ok THEN deleteConfirmation' = NoConfirmation
       ELSE UNCHANGED deleteConfirmation
    /\ UNCHANGED <<selectedDate, showOrderForm, selectedCustomer, orderItems,
                   editingSummary, editingOrderItems>>

(***************************************************************************)
(* A store request completes: it succeeds (the rows change) or fails (they *)
(* do not).  Promise.all of the awaiting handler is rejected by the first  *)
(* failure, its other requests staying in flight, and fulfilled by the     *)
(* last success.                                                           *)
(***************************************************************************)
Settle(c, ok, rest) ==
    IF c.owner = "handleSavePayment"
    THEN /\ SettlePayment(ok)
         /\ calls' = rest
         /\ UNCHANGED <<page, ordersVars>>
    ELSE IF c.owner = "handleSubmitOrder"
    THEN /\ SettleSubmitOrder(ok)
         /\ calls' = rest
         /\ UNCHANGED <<page, detailVars>>
    ELSE IF c.owner = "confirmDelete"
    THEN /\ SettleConfirmDelete(ok)
         /\ calls' = rest
         /\ UNCHANGED <<page, detailVars>>
    ELSE IF c.op = "delete"
    THEN /\ SettleSaveEditDeletes(ok, c.order, rest)
         /\ UNCHANGED <<page, detailVars>>
    ELSE /\ SettleSaveEditAdd(ok)
         /\ calls' = rest
         /\ UNCHANGED <<page, detailVars>>

CompleteCall(c, ok) ==
    LET rest     == calls \ {c}
        liveRest == {d \in rest : d.live}
    IN  /\ c \in calls
        /\ orders' = IF ok THEN StoreApply(orders, c, nextId) ELSE orders
        /\ nextId' = IF ok /\ c.op = "add" THEN nextId + 1 ELSE nextId
        /\ products' = products
        /\ customers' = customers
        /\ boxConfigs' = boxConfigs
        /\ session2' = session2
        /\ UNCHANGED <<statementVars, histVars>>
        /\ IF ~c.live
           THEN calls' = rest /\ UNCHANGED <<page, ordersVars, detailVars>>
           ELSE IF ~ok
           THEN Settle(c, FALSE, (rest \ liveRest) \cup Orphaned(liveRest))
           ELSE IF liveRest # {}
           THEN calls' = rest /\ UNCHANGED <<page, ordersVars, detailVars>>
           ELSE Settle(c, TRUE, rest)

(***************************************************************************)
(* The user on the Customer-detail page.                                   *)
(***************************************************************************)
\* a card that shows Fully Paid only below a balance of 0
FullyPaid_BelowZero(summary) == Gt(0, summary.balance)

\* summary.balance <= 0 ? Fully Paid : the Record Payment button
FullyPaid(summary) == Leq(summary.balance, 0)

\* a Record Payment button on every card
RecordPaymentOffered_Always(summary) == TRUE

RecordPaymentOffered(summary) == ~FullyPaid(summary)

\* a summary card's Record Payment button, in reach while the dialog does
\* not cover the page
ClickRecordPayment ==
    /\ page = "customer"
    /\ ~paymentModal.show
    /\ \E s \in Range(dailySummaries(customerOrders(orders, id))) :
          /\ RecordPaymentOffered(s)
          /\ handleOpenPaymentModal(s)
    /\ UNCHANGED <<storeVars, calls, page, ordersVars, id, isSubmitting,
                   statementVars, histVars>>

TypeAmount ==
    /\ page = "customer"
    /\ paymentModal.show
    /\ \E t \in AmountTexts : setPaymentAmount(t)
    /\ UNCHANGED <<storeVars, calls, page, ordersVars, id, paymentModal,
                   isSubmitting, statementVars, histVars>>

ClickCancelPayment ==
    /\ page = "customer"
    /\ paymentModal.show
    /\ CancelPayment
    /\ UNCHANGED <<storeVars, calls, page, ordersVars, id, paymentAmount,
                   isSubmitting, statementVars, histVars>>

\* the Save Payment button, disabled while isSubmitting
ClickSavePayment ==
    /\ page = "customer"
    /\ paymentModal.show
    /\ ~isSubmitting
    /\ UNCHANGED <<storeVars, page, ordersVars, statementVars>>
    /\ \E confirmAnswer \in BOOLEAN : handleSavePayment(confirmAnswer)

StoreResponds == \E c \in calls : \E ok \in BOOLEAN : CompleteCall(c, ok)

(***************************************************************************)
(* SpecAlloc: handleOpenPaymentModal and handleSavePayment as functions of *)
(* their inputs.  The store is drawn, the dialog is opened on any summary  *)
(* of it, any text is typed, and handleSavePayment runs once, up to its    *)
(* await.                                                                  *)
(***************************************************************************)
DrawnProducts == <<[id |-> 1, name |-> 1, price |-> 1]>>

DrawnOrder(n, total, paid) ==
    [id |-> n, customer_id |-> 1, customer_name |-> 1, date |-> 1,
     items |-> <<[product_id |-> 1, product_name |-> 1, quantity |-> total,
                  price |-> 1, total |-> total]>>,
     total_amount |-> total, amount_paid |-> paid, created_at |-> n]

DrawnPaid == (0..MaxPaid) \cup {Null}

\* the stores of n rows of one customer-day, the newest first
DrawnStores(n) ==
    {[i \in 1..n |-> DrawnOrder(n + 1 - i, f[i][1], f[i][2])] :
        f \in [1..n -> (0..MaxTotal) \X DrawnPaid]}

InitAlloc ==
    /\ orders \in UNION {DrawnStores(n) : n \in 1..MaxDrawn}
    /\ products = DrawnProducts
    /\ customers = {1}
    /\ boxConfigs = NoBoxConfigs
    /\ nextId = Len(orders) + 1
    /\ calls = {}
    /\ page = "customer"
    /\ selectedDate = 1
    /\ showOrderForm = FALSE
    /\ selectedCustomer = NoCustomer
    /\ orderItems = <<>>
    /\ editingSummary = NoOrdersSummary
    /\ editingOrderItems = <<>>
    /\ deleteConfirmation = NoConfirmation
    /\ ordersSubmitting = FALSE
    /\ id = 1
    /\ paymentModal = ClosedModal
    /\ paymentAmount = <<>>
    /\ isSubmitting = FALSE
    /\ startDate = 1
    /\ endDate = 1
    /\ selectedCustomerId = AllCustomers
    /\ generatedStatement = NoStatement
    /\ SheetIdle
    /\ session2 = NoSession
    /\ lastSave = NoSave
    /\ overpaid = {}

FirstRun == lastSave.outcome = "none"

AllocOpen ==
    /\ FirstRun
    /\ \E s \in Range(dailySummaries(customerOrders(orders, id))) :
          handleOpenPaymentModal(s)
    /\ UNCHANGED <<storeVars, calls, page, ordersVars, id, isSubmitting,
                   statementVars, histVars>>

AllocType == FirstRun /\ TypeAmount

AllocCancel == FirstRun /\ ClickCancelPayment

AllocSave == FirstRun /\ ClickSavePayment

NextAlloc == AllocOpen \/ AllocType \/ AllocCancel \/ AllocSave

SpecAlloc == InitAlloc /\ [][NextAlloc]_vars

(***************************************************************************)
(* The user on the Orders page.  The cards, the add form and its customer  *)
(* select are rendered when there are customers and products; the items of *)
(* the add form when a customer is selected; the dialogs when their state  *)
(* is set.                                                                 *)
(***************************************************************************)
SetupDone == customers # {} /\ Len(products) > 0

\* a dialog covers the page (fixed inset-0): what lies under it is out of reach
Covered == editingSummary # NoOrdersSummary \/ deleteConfirmation.show

\* rows the store may still insert: the insertions are bounded by MaxIds
AddsAhead ==
    Cardinality({c \in calls : c.op = "add" \/ (c.live /\ c.order # NoOrder)})

\* the Add Order button
ClickAddOrder ==
    /\ page = "orders"
    /\ ~Covered
    /\ SetupDone
    /\ showOrderForm' = TRUE
    /\ handleCloseEditModal
    /\ UNCHANGED <<storeVars, calls, page, selectedDate, selectedCustomer,
                   orderItems, deleteConfirmation, ordersSubmitting,
                   detailVars, statementVars, histVars>>

\* onChange of the date input
SelectDate ==
    /\ page = "orders"
    /\ ~Covered
    /\ \E d \in Dates : selectedDate' = d
    /\ UNCHANGED <<storeVars, calls, page, showOrderForm, selectedCustomer,
                   orderItems, editingSummary, editingOrderItems,
                   deleteConfirmation, ordersSubmitting, detailVars,
                   statementVars, histVars>>

\* onChange of the customer select of the add form
SelectCustomer ==
    /\ page = "orders"
    /\ ~Covered
    /\ SetupDone
    /\ showOrderForm
    /\ \E c \in customers \cup {NoCustomer} : selectedCustomer' = c
    /\ UNCHANGED <<storeVars, calls, page, selectedDate, showOrderForm,
                   orderItems, editingSummary, editingOrderItems,
                   deleteConfirmation, ordersSubmitting, detailVars,
                   statementVars, histVars>>

\* the form isEditing tells of is on the screen
FormShown(isEditing) ==
    IF isEditing THEN editingSummary # NoOrdersSummary /\ ~deleteConfirmation.show
    ELSE ~Covered /\ SetupDone /\ showOrderForm /\ selectedCustomer # NoCustomer

\* + Add Item
ClickAddItem ==
    /\ page = "orders"
    /\ \E isEditing \in BOOLEAN :
          /\ FormShown(isEditing)
          /\ Len(ItemsOf(isEditing)) < MaxItems
          /\ handleAddOrderItem(isEditing)
    /\ UNCHANGED <<storeVars, calls, page, selectedDate, showOrderForm,
                   selectedCustomer, editingSummary, deleteConfirmation,
                   ordersSubmitting, detailVars, statementVars, histVars>>

\* the trash button of an item
ClickRemoveItem ==
    /\ page = "orders"
    /\ \E isEditing \in BOOLEAN :
          /\ FormShown(isEditing)
          /\ \E i \in 1..Len(ItemsOf(isEditing)) :
                handleRemoveOrderItem(i, isEditing)
    /\ UNCHANGED <<storeVars, calls, page, selectedDate, showOrderForm,
                   selectedCustomer, editingSummary, deleteConfirmation,
                   ordersSubmitting, detailVars, statementVars, histVars>>

\* onChange of the product select of an item
ChangeItemProduct ==
    /\ page = "orders"
    /\ \E isEditing \in BOOLEAN :
          /\ FormShown(isEditing)
          /\ \E i \in 1..Len(ItemsOf(isEditing)) :
             \E p \in Range(products) :
                handleUpdateOrderItem(i, "product_id", p.id, isEditing)
    /\ UNCHANGED <<storeVars, calls, page, selectedDate, showOrderForm,
                   selectedCustomer, editingSummary, deleteConfirmation,
                   ordersSubmitting, detailVars, statementVars, histVars>>

\* onChange of the quantity input of an item
ChangeItemQuantity ==
    /\ page = "orders"
    /\ \E isEditing \in BOOLEAN :
          /\ FormShown(isEditing)
          /\ \E i \in 1..Len(ItemsOf(isEditing)) :
             \E t \in QtyTexts :
                handleUpdateOrderItem(i, "quantity", t, isEditing)
    /\ UNCHANGED <<storeVars, calls, page, selectedDate, showOrderForm,
                   selectedCustomer, editingSummary, deleteConfirmation,
                   ordersSubmitting, detailVars, statementVars, histVars>>

\* Create Order, disabled without customer or items and while isSubmitting
CreateOrderButton ==
    /\ page = "orders"
    /\ ~Covered
    /\ SetupDone
    /\ showOrderForm
    /\ ~(selectedCustomer = NoCustomer \/ Len(orderItems) = 0 \/ ordersSubmitting)
    /\ handleSubmitOrder
    /\ UNCHANGED <<storeVars, page, detailVars, statementVars, histVars>>

\* Create Order while the store may still insert a row
ClickCreateOrder ==
    /\ nextId + AddsAhead <= MaxIds
    /\ Cardinality(calls) < MaxCalls
    /\ CreateOrderButton

\* the Cancel button of the add form
ClickCancelOrderForm ==
    /\ page = "orders"
    /\ ~Covered
    /\ SetupDone
    /\ showOrderForm
    /\ showOrderForm' = FALSE
    /\ selectedCustomer' = NoCustomer
    /\ orderItems' = <<>>
    /\ UNCHANGED <<storeVars, calls, page, selectedDate, editingSummary,
                   editingOrderItems, deleteConfirmation, ordersSubmitting,
                   detailVars, statementVars, histVars>>

\* the Edit button of a card
ClickEdit ==
    /\ page = "orders"
    /\ ~Covered
    /\ SetupDone
    /\ \E s \in Range(customerDailySummaries(dailyOrders(orders, selectedDate))) :
          handleOpenEditModal(s)
    /\ UNCHANGED <<storeVars, calls, page, selectedDate, selectedCustomer,
                   orderItems, deleteConfirmation, ordersSubmitting,
                   detailVars, statementVars, histVars>>

\* Save Changes, disabled while isSubmitting
SaveChangesButton ==
    /\ page = "orders"
    /\ editingSummary # NoOrdersSummary
    /\ ~ordersSubmitting
    /\ handleSaveEdit
    /\ UNCHANGED <<storeVars, page, detailVars, statementVars, histVars>>

\* Save Changes while the store may still insert a row
ClickSaveChanges ==
    /\ nextId + AddsAhead <= MaxIds
    /\ Cardinality(calls) + Len(editingSummary.orderIds) <= MaxCalls
    /\ SaveChangesButton

\* the Cancel button of the edit dialog
ClickCancelEdit ==
    /\ page = "orders"
    /\ editingSummary # NoOrdersSummary
    /\ handleCloseEditModal
    /\ UNCHANGED <<storeVars, calls, page, selectedDate, showOrderForm,
                   selectedCustomer, orderItems, deleteConfirmation,
                   ordersSubmitting, detailVars, statementVars, histVars>>

\* the Delete button of a card
ClickDelete ==
    /\ page = "orders"
    /\ ~Covered
    /\ SetupDone
    /\ \E s \in Range(customerDailySummaries(dailyOrders(orders, selectedDate))) :
          handleDelete(s)
    /\ UNCHANGED <<storeVars, calls, page, selectedDate, showOrderForm,
                   selectedCustomer, orderItems, editingSummary,
                   editingOrderItems, ordersSubmitting, detailVars,
                   statementVars, histVars>>

\* the Cancel button of the delete dialog
ClickCancelDelete ==
    /\ page = "orders"
    /\ deleteConfirmation.show
    /\ deleteConfirmation.summary # NoOrdersSummary
    /\ deleteConfirmation' = NoConfirmation
    /\ UNCHANGED <<storeVars, calls, page, selectedDate, showOrderForm,
                   selectedCustomer, orderItems, editingSummary,
                   editingOrderItems, ordersSubmitting, detailVars,
                   statementVars, histVars>>

\* the Delete button of the delete dialog, disabled while isSubmitting
ClickConfirmDelete ==
    /\ page = "orders"
    /\ deleteConfirmation.show
    /\ deleteConfirmation.summary # NoOrdersSummary
    /\ ~ordersSubmitting
    /\ Cardinality(calls) + Len(deleteConfirmation.summary.orderIds) <= MaxCalls
    /\ confirmDelete
    /\ UNCHANGED <<storeVars, page, detailVars, statementVars, histVars>>

(***************************************************************************)
(* The machine: the pages are mounted with the initial state of their      *)
(* useState hooks, on an empty store; the user goes from one page to the   *)
(* other while no handler awaits the store.                                *)
(***************************************************************************)
MountOrders ==
    /\ selectedDate' = 1
    /\ showOrderForm' = FALSE
    /\ selectedCustomer' = NoCustomer
    /\ orderItems' = <<>>
    /\ editingSummary' = NoOrdersSummary
    /\ editingOrderItems' = <<>>
    /\ deleteConfirmation' = NoConfirmation
    /\ ordersSubmitting' = FALSE

MountCustomerDetail(cid) ==
    /\ id' = cid
    /\ paymentModal' = ClosedModal
    /\ paymentAmount' = <<>>
    /\ isSubmitting' = FALSE

Navigate ==
    /\ \A c \in calls : ~c.live
    /\ page' = IF page = "orders" THEN "customer" ELSE "orders"
    /\ MountOrders
    /\ \E cid \in customers : MountCustomerDetail(cid)
    /\ lastSave' = NoSave
    /\ UNCHANGED <<storeVars, calls, statementVars, overpaid>>

Init ==
    /\ orders = <<>>
    /\ products = DrawnProducts
    /\ customers = {1}
    /\ boxConfigs = NoBoxConfigs
    /\ nextId = 1
    /\ calls = {}
    /\ page = "orders"
    /\ selectedDate = 1
    /\ showOrderForm = FALSE
    /\ selectedCustomer = NoCustomer
    /\ orderItems = <<>>
    /\ editingSummary = NoOrdersSummary
    /\ editingOrderItems = <<>>
    /\ deleteConfirmation = NoConfirmation
    /\ ordersSubmitting = FALSE
    /\ id = 1
    /\ paymentModal = ClosedModal
    /\ paymentAmount = <<>>
    /\ isSubmitting = FALSE
    /\ startDate = 1
    /\ endDate = 1
    /\ selectedCustomerId = AllCustomers
    /\ generatedStatement = NoStatement
    /\ SheetIdle
    /\ session2 = NoSession
    /\ lastSave = NoSave
    /\ overpaid = {}

SavePaymentBounded ==
    /\ Cardinality(calls) + Len(paymentModal.summary.orders) <= MaxCalls
    /\ ClickSavePayment

Next ==
    \/ ClickAddOrder
    \/ SelectDate
    \/ SelectCustomer
    \/ ClickAddItem
    \/ ClickRemoveItem
    \/ ChangeItemProduct
    \/ ChangeItemQuantity
    \/ ClickCreateOrder
    \/ ClickCancelOrderForm
    \/ ClickEdit
    \/ ClickSaveChanges
    \/ ClickCancelEdit
    \/ ClickDelete
    \/ ClickCancelDelete
    \/ ClickConfirmDelete
    \/ ClickRecordPayment
    \/ TypeAmount
    \/ ClickCancelPayment
    \/ SavePaymentBounded
    \/ StoreResponds
    \/ Navigate

Spec == Init /\ [][Next]_vars

(***************************************************************************)
(* SpecOrders: handleSubmitOrder and handleSaveEdit as functions of the    *)
(* forms.  The store is drawn, empty or with one order saved at an earlier *)
(* price; the user fills the add form or the edit dialog, changes a        *)
(* product's price on the Products page between two visits (coming back    *)
(* mounts the Orders page anew), and one of the two handlers writes once.  *)
(***************************************************************************)
MaxPrice == 2         \* largest unit price of a product

PricedProducts ==
    {<<[id |-> 1, name |-> 1, price |-> price]>> : price \in 1..MaxPrice}

\* an order of customer 1 on day 1 with one line saved at the given price
PricedOrder(quantity, price) ==
    [id |-> 1, customer_id |-> 1, customer_name |-> 1, date |-> 1,
     items |-> <<[product_id |-> 1, product_name |-> 1, quantity |-> quantity,
                  price |-> price, total |-> quantity * price]>>,
     total_amount |-> quantity * price, amount_paid |-> 0, created_at |-> 1]

\* the store has handed out id 1, to the drawn order or to one since deleted
FirstWrittenId == 2

PricedStores ==
    {<<>>}
    \cup {<<PricedOrder(quantity, price)>> :
              quantity \in 1..MaxQty, price \in 1..MaxPrice}

InitOrders ==
    /\ orders \in PricedStores
    /\ products \in PricedProducts
    /\ customers = {1}
    /\ boxConfigs = NoBoxConfigs
    /\ nextId = FirstWrittenId
    /\ calls = {}
    /\ page = "orders"
    /\ selectedDate = 1
    /\ showOrderForm = FALSE
    /\ selectedCustomer = NoCustomer
    /\ orderItems = <<>>
    /\ editingSummary = NoOrdersSummary
    /\ editingOrderItems = <<>>
    /\ deleteConfirmation = NoConfirmation
    /\ ordersSubmitting = FALSE
    /\ id = 1
    /\ paymentModal = ClosedModal
    /\ paymentAmount = <<>>
    /\ isSubmitting = FALSE
    /\ startDate = 1
    /\ endDate = 1
    /\ selectedCustomerId = AllCustomers
    /\ generatedStatement = NoStatement
    /\ SheetIdle
    /\ session2 = NoSession
    /\ lastSave = NoSave
    /\ overpaid = {}

\* neither handler has inserted a row yet
NothingWritten == calls = {} /\ nextId = FirstWrittenId

\* the Products page: a product's price is changed, then the Orders page is
\* mounted again
ChangeProductPrice ==
    /\ page = "orders"
    /\ \A c \in calls : ~c.live
    /\ \E i \in DOMAIN products : \E price \in 1..MaxPrice :
          /\ price # products[i].price
          /\ products' = [products EXCEPT ![i].price = price]
    /\ MountOrders
    /\ UNCHANGED <<orders, customers, nextId, boxConfigs, session2, calls,
                   page, detailVars, statementVars, histVars>>

\* the edit dialog is opened while the add form holds nothing
EditFromCleanPage ==
    /\ selectedCustomer = NoCustomer
    /\ orderItems = <<>>
    /\ ClickEdit

WriteCreateOrder == NothingWritten /\ ClickCreateOrder

WriteSaveChanges == NothingWritten /\ ClickSaveChanges

NextOrders ==
    \/ ClickAddOrder
    \/ SelectCustomer
    \/ ClickAddItem
    \/ ClickRemoveItem
    \/ ChangeItemProduct
    \/ ChangeItemQuantity
    \/ WriteCreateOrder
    \/ ClickCancelOrderForm
    \/ EditFromCleanPage
    \/ WriteSaveChanges
    \/ ClickCancelEdit
    \/ StoreResponds
    \/ ChangeProductPrice

SpecOrders == InitOrders /\ [][NextOrders]_vars

(***************************************************************************)
(* SpecWrites: the four handlers that write to the store, on a drawn       *)
(* store whose requests succeed or fail.  The store holds up to MaxDrawn   *)
(* orders of customer 1 on day 1; the Orders page or the Customer-detail   *)
(* page of that customer is mounted on it, and the user works its forms    *)
(* and dialogs, again after a failure.                                     *)
(***************************************************************************)
\* <<total_amount, amount_paid>> of a drawn order: unpaid, partly paid, with
\* no amount_paid, fully paid
WritePays == {<<1, 0>>, <<2, 1>>, <<1, Null>>, <<1, 1>>}

\* the drawn stores of one customer-day, the newest order first
WriteStores ==
    UNION {{[i \in 1..n |-> DrawnOrder(n + 1 - i, f[i][1], f[i][2])] :
                f \in [1..n -> WritePays]} : n \in 1..MaxDrawn}

InitWrites ==
    /\ orders \in WriteStores
    /\ products = DrawnProducts
    /\ customers = {1}
    /\ boxConfigs = NoBoxConfigs
    /\ nextId = MaxDrawn + 1
    /\ calls = {}
    /\ page \in {"orders", "customer"}
    /\ selectedDate = 1
    /\ showOrderForm = FALSE
    /\ selectedCustomer = NoCustomer
    /\ orderItems = <<>>
    /\ editingSummary = NoOrdersSummary
    /\ editingOrderItems = <<>>
    /\ deleteConfirmation = NoConfirmation
    /\ ordersSubmitting = FALSE
    /\ id = 1
    /\ paymentModal = ClosedModal
    /\ paymentAmount = <<>>
    /\ isSubmitting = FALSE
    /\ startDate = 1
    /\ endDate = 1
    /\ selectedCustomerId = AllCustomers
    /\ generatedStatement = NoStatement
    /\ SheetIdle
    /\ session2 = NoSession
    /\ lastSave = NoSave
    /\ overpaid = {}

\* the store has answered every request: the user acts between two runs of
\* a handler, not during one
Quiet == calls = {}

\* the store has handed out the ids up to MaxDrawn and has inserted no row
\* since: the user works on the drawn orders until one handler has written
NothingInserted == nextId = MaxDrawn + 1

WritesAddOrder == Quiet /\ NothingInserted /\ ClickAddOrder

WritesSelectCustomer == Quiet /\ SelectCustomer

WritesAddItem == Quiet /\ ClickAddItem

WritesRemoveItem == Quiet /\ ClickRemoveItem

WritesChangeProduct == Quiet /\ ChangeItemProduct

WritesChangeQuantity == Quiet /\ ChangeItemQuantity

WritesCancelOrderForm == Quiet /\ ClickCancelOrderForm

\* a dialog is opened while the add form holds nothing
WritesEdit == Quiet /\ NothingInserted /\ EditFromCleanPage

WritesCancelEdit == Quiet /\ ClickCancelEdit

WritesDelete ==
    /\ Quiet
    /\ NothingInserted
    /\ selectedCustomer = NoCustomer
    /\ orderItems = <<>>
    /\ ClickDelete

WritesCancelDelete == Quiet /\ ClickCancelDelete

WritesRecordPayment == Quiet /\ ClickRecordPayment

\* the amount is typed before the first run of handleSavePayment
WritesTypeAmount == Quiet /\ AllocType

WritesCancelPayment == Quiet /\ ClickCancelPayment

\* a handler is run, and run again after a failure
WritesCreateOrder == Quiet /\ NothingInserted /\ CreateOrderButton

WritesSaveChanges ==
    /\ Quiet
    /\ NothingInserted
    /\ Len(editingSummary.orderIds) <= MaxCalls
    /\ SaveChangesButton

WritesConfirmDelete == Quiet /\ ClickConfirmDelete

WritesSavePayment == Quiet /\ SavePaymentBounded

NextWrites ==
    \/ WritesAddOrder
    \/ WritesSelectCustomer
    \/ WritesAddItem
    \/ WritesRemoveItem
    \/ WritesChangeProduct
    \/ WritesChangeQuantity
    \/ WritesCancelOrderForm
    \/ WritesCreateOrder
    \/ WritesEdit
    \/ WritesCancelEdit
    \/ WritesSaveChanges
    \/ WritesDelete
    \/ WritesCancelDelete
    \/ WritesConfirmDelete
    \/ WritesRecordPayment
    \/ WritesTypeAmount
    \/ WritesCancelPayment
    \/ WritesSavePayment
    \/ StoreResponds

SpecWrites == InitWrites /\ [][NextWrites]_vars

(***************************************************************************)
(* The user on the Statement page.                                         *)
(***************************************************************************)
\* onChange of the From date input
SelectStartDate ==
    /\ page = "statement"
    /\ \E d \in Dates : startDate' = d
    /\ UNCHANGED <<storeVars, calls, page, ordersVars, detailVars, endDate,
                   selectedCustomerId, generatedStatement, sheetVars, histVars>>

\* onChange of the To date input
SelectEndDate ==
    /\ page = "statement"
    /\ \E d \in Dates : endDate' = d
    /\ UNCHANGED <<storeVars, calls, page, ordersVars, detailVars, startDate,
                   selectedCustomerId, generatedStatement, sheetVars, histVars>>

\* onChange of the customer select
SelectStatementCustomer ==
    /\ page = "statement"
    /\ \E c \in customers \cup {AllCustomers} : selectedCustomerId' = c
    /\ UNCHANGED <<storeVars, calls, page, ordersVars, detailVars, startDate,
                   endDate, generatedStatement, sheetVars, histVars>>

\* the Generate Statement button
ClickGenerateStatement ==
    /\ page = "statement"
    /\ handleGenerateStatement
    /\ UNCHANGED <<storeVars, calls, page, ordersVars, detailVars, startDate,
                   endDate, selectedCustomerId, sheetVars, histVars>>

(***************************************************************************)
(* SpecAgg: the three aggregators as functions of the orders.  The store   *)
(* is drawn: up to two orders, the first of customer 1 on day 1, the other *)
(* of the same or another customer or day, and up to MaxLines line items   *)
(* spread over them, of product 1 at its price, of product 1 at an earlier *)
(* price, or of product 2.  One page is mounted on it and shows the        *)
(* summaries of a day, of a customer, or of a generated statement.         *)
(***************************************************************************)
MaxLines == 2         \* most line items in a drawn store

AggProducts == <<[id |-> 1, name |-> 1, price |-> 1],
                 [id |-> 2, name |-> 2, price |-> 1]>>

\* <<product_id, price>> of a drawn line item
AggKinds == {<<1, 1>>, <<1, 2>>, <<2, 1>>}

AggQuantities == {1, 2}

\* <<customer_id, date>> of the second drawn order
AggGroups == {<<1, 1>>, <<1, 2>>, <<2, 1>>}

AggItem(line) ==
    [product_id |-> line.kind[1], product_name |-> line.kind[1],
     quantity |-> line.quantity, price |-> line.kind[2],
     total |-> line.quantity * line.kind[2]]

\* amount_paid of a drawn order: missing, nothing, or an amount that is
\* below, at or above the total of an order of one or two units
AggPaid == {Null, 0, 1, 2}

\* <<amount_paid of order 1, amount_paid of order 2>> of a store of two
AggPaidPairs == {<<0, 0>>, <<1, Null>>, <<Null, 2>>, <<2, 1>>}

\* order n of the drawn store, with the lines drawn for it as its items
AggOrder(n, group, lines, paid) ==
    LET mine  == Filter(lines, LAMBDA l : l.order = n)
        items == [i \in 1..Len(mine) |-> AggItem(mine[i])]
    IN  [id |-> n, customer_id |-> group[1], customer_name |-> group[1],
         date |-> group[2], items |-> items,
         total_amount |-> SumOver(items, LAMBDA item : item.total),
         amount_paid |-> paid, created_at |-> n]

AggLines(n) ==
    UNION {[1..len -> [order : 1..n, kind : AggKinds, quantity : AggQuantities]] :
              len \in 0..MaxLines}

\* the drawn stores, the newest order first
AggStores ==
    {<<>>}
    \cup {<<AggOrder(1, <<1, 1>>, lines, paid)>> :
              lines \in AggLines(1), paid \in AggPaid}
    \cup {<<AggOrder(2, g, lines, paid[2]), AggOrder(1, <<1, 1>>, lines, paid[1])>> :
              g \in AggGroups, lines \in AggLines(2), paid \in AggPaidPairs}

InitAgg ==
    /\ orders \in AggStores
    /\ products = AggProducts
    /\ customers = {1, 2}
    /\ boxConfigs = NoBoxConfigs
    /\ nextId = Len(orders) + 1
    /\ calls = {}
    /\ page \in {"orders", "customer", "statement"}
    /\ selectedDate = 1
    /\ showOrderForm = FALSE
    /\ selectedCustomer = NoCustomer
    /\ orderItems = <<>>
    /\ editingSummary = NoOrdersSummary
    /\ editingOrderItems = <<>>
    /\ deleteConfirmation = NoConfirmation
    /\ ordersSubmitting = FALSE
    /\ id \in (IF page = "customer" THEN customers ELSE {1})
    /\ paymentModal = ClosedModal
    /\ paymentAmount = <<>>
    /\ isSubmitting = FALSE
    /\ startDate = 1
    /\ endDate = 1
    /\ selectedCustomerId = AllCustomers
    /\ generatedStatement = NoStatement
    /\ SheetIdle
    /\ session2 = NoSession
    /\ lastSave = NoSave
    /\ overpaid = {}

\* the filters of the statement are set before it is generated
NotGenerated == ~generatedStatement.generated

AggSelectDate == SelectDate

AggClickEdit == ClickEdit

AggRecordPayment == ClickRecordPayment

AggSelectStartDate == NotGenerated /\ SelectStartDate

AggSelectEndDate == NotGenerated /\ SelectEndDate

AggSelectCustomer == NotGenerated /\ SelectStatementCustomer

AggGenerate == ClickGenerateStatement

NextAgg ==
    \/ AggSelectDate
    \/ AggClickEdit
    \/ AggRecordPayment
    \/ AggSelectStartDate
    \/ AggSelectEndDate
    \/ AggSelectCustomer
    \/ AggGenerate

SpecAgg == InitAgg /\ [][NextAgg]_vars

(***************************************************************************)
(* Box calculator: productSummary, handleConfigChange, calculateBoxNeeds.  *)
(* calculateBoxNeeds returns null or [fullBoxes, remainingPieces,          *)
(* neededForNextBox]; the model's result carries isNull.                   *)
(***************************************************************************)
\* new Date().toISOString().split('T')[0]
today == 1

\* salesSummary[productId] || { totalQuantity: 0, totalValue: 0 }
salesOf(os, productId) ==
    LET todayOrders == Filter(os, LAMBDA o : o.date = today)
        sold == Filter(FlatMap(todayOrders, LAMBDA o : o.items),
                       LAMBDA item : item.product_id = productId)
    IN  [totalQuantity |-> SumOver(sold, LAMBDA item : item.quantity),
         totalValue    |-> SumOver(sold, LAMBDA item : item.total)]

CompareProductNames(a, b) == a.name - b.name

productSummary(os, ps) ==
    Sort([i \in 1..Len(ps) |->
             [productId     |-> ps[i].id,
              name          |-> ps[i].name,
              totalQuantity |-> salesOf(os, ps[i].id).totalQuantity,
              totalValue    |-> salesOf(os, ps[i].id).totalValue]],
         CompareProductNames)

\* parseInt(s, 10): an optional sign and the longest run of digits
parseInt(s) ==
    LET signed == Len(s) >= 1 /\ s[1] = "-"
        rest   == IF signed THEN Tail(s) ELSE s
    IN  IF Len(rest) >= 1 /\ IsDigit(rest[1])
        THEN IF signed THEN 0 - DigitRun(rest, 1, 0) ELSE DigitRun(rest, 1, 0)
        ELSE NaN

handleConfigChange(productId, value) ==
    LET pieces == parseInt(value)
        stored == IF isNaN(pieces) \/ pieces < 0 THEN 0 ELSE pieces
    IN  boxConfigs' =
            [q \in DOMAIN boxConfigs \cup {productId} |->
                IF q = productId THEN stored ELSE boxConfigs[q]]

\* boxConfigs[productId] || 0
piecesPerBoxOf(productId) ==
    OrZero(IF productId \in DOMAIN boxConfigs THEN boxConfigs[productId]
           ELSE Null)

\* Math.floor(a / b) of integers
FloorOfQuotient(a, b) ==
    IF b = 0
    THEN IF a = 0 THEN NaN ELSE IF a > 0 THEN Infinity ELSE NegInfinity
    ELSE IF b > 0 THEN a \div b
    ELSE (0 - a) \div (0 - b)

\* a % b of integers: the sign of a, NaN when b is 0
Remainder(a, b) ==
    IF b = 0 THEN NaN
    ELSE LET m == IF b > 0 THEN b ELSE 0 - b
         IN  IF a >= 0 THEN a % m ELSE 0 - ((0 - a) % m)

\* a guard that lets 0 through
NotConfigured_OnlyNegative(piecesPerBox) == piecesPerBox < 0

\* piecesPerBox <= 0
NotConfigured(piecesPerBox) == Leq(piecesPerBox, 0)

\* full boxes rounded up
fullBoxesOf_RoundedUp(totalQuantity, piecesPerBox) ==
    0 - FloorOfQuotient(0 - totalQuantity, piecesPerBox)

fullBoxesOf(totalQuantity, piecesPerBox) ==
    FloorOfQuotient(totalQuantity, piecesPerBox)

\* the operands of % the other way round
remainingPiecesOf_Swapped(totalQuantity, piecesPerBox) ==
    Remainder(piecesPerBox, totalQuantity)

remainingPiecesOf(totalQuantity, piecesPerBox) ==
    Remainder(totalQuantity, piecesPerBox)

\* needed for the next box without the case of no loose piece
neededForNextBoxOf_Always(remainingPieces, piecesPerBox) ==
    Minus(piecesPerBox, remainingPieces)

neededForNextBoxOf(remainingPieces, piecesPerBox) ==
    IF remainingPieces = 0 THEN 0 ELSE Minus(piecesPerBox, remainingPieces)

NoBoxNeeds ==
    [isNull |-> TRUE, fullBoxes |-> 0, remainingPieces |-> 0,
     neededForNextBox |-> 0]

calculateBoxNeeds(totalQuantity, piecesPerBox) ==
    IF NotConfigured(piecesPerBox) THEN NoBoxNeeds
    ELSE LET remainingPieces == remainingPiecesOf(totalQuantity, piecesPerBox)
         IN  [isNull           |-> FALSE,
              fullBoxes        |-> fullBoxesOf(totalQuantity, piecesPerBox),
              remainingPieces  |-> remainingPieces,
              neededForNextBox |-> neededForNextBoxOf(remainingPieces,
                                                      piecesPerBox)]

\* the rows of the page: productSummary.map(...)
BoxRows ==
    LET summary == productSummary(orders, products)
    IN  [i \in 1..Len(summary) |->
            LET piecesPerBox == piecesPerBoxOf(summary[i].productId)
            IN  [productId     |-> summary[i].productId,
                 totalQuantity |-> summary[i].totalQuantity,
                 piecesPerBox  |-> piecesPerBox,
                 calculation   |-> calculateBoxNeeds(summary[i].totalQuantity,
                                                     piecesPerBox)]]

(***************************************************************************)
(* SpecBoxes: the Box-calculator page on a drawn store of up to two orders *)
(* of one line item each, of today or of another day; the user types into  *)
(* the pcs/box inputs.                                                     *)
(***************************************************************************)
MaxSold   == 5        \* largest quantity of a drawn line item
MaxPieces == 4        \* largest pcs/box a user types

\* texts a user leaves in a pcs/box input
ConfigTexts ==
    {ToText(n) : n \in 0..MaxPieces}
    \cup {<<>>, <<"a">>, <<"-", "2">>, <<"2", "k">>}

BoxOrder(n, date, productId, quantity) ==
    [id |-> n, customer_id |-> 1, customer_name |-> 1, date |-> date,
     items |-> <<[product_id |-> productId, product_name |-> productId,
                  quantity |-> quantity, price |-> 1, total |-> quantity]>>,
     total_amount |-> quantity, amount_paid |-> 0, created_at |-> n]

BoxLines == [date : Dates, productId : {1, 2}, quantity : 0..MaxSold]

\* the drawn stores, the newest order first
BoxStores ==
    {<<>>}
    \cup {<<BoxOrder(1, l.date, l.productId, l.quantity)>> : l \in BoxLines}
    \cup {<<BoxOrder(2, m.date, m.productId, m.quantity),
             BoxOrder(1, l.date, l.productId, l.quantity)>> :
              l \in BoxLines, m \in BoxLines}

InitBoxes ==
    /\ orders \in BoxStores
    /\ products = AggProducts
    /\ customers = {1}
    /\ boxConfigs = NoBoxConfigs
    /\ nextId = Len(orders) + 1
    /\ calls = {}
    /\ page = "boxes"
    /\ selectedDate = 1
    /\ showOrderForm = FALSE
    /\ selectedCustomer = NoCustomer
    /\ orderItems = <<>>
    /\ editingSummary = NoOrdersSummary
    /\ editingOrderItems = <<>>
    /\ deleteConfirmation = NoConfirmation
    /\ ordersSubmitting = FALSE
    /\ id = 1
    /\ paymentModal = ClosedModal
    /\ paymentAmount = <<>>
    /\ isSubmitting = FALSE
    /\ startDate = 1
    /\ endDate = 1
    /\ selectedCustomerId = AllCustomers
    /\ generatedStatement = NoStatement
    /\ SheetIdle
    /\ session2 = NoSession
    /\ lastSave = NoSave
    /\ overpaid = {}

\* onChange of a row's pcs/box input
ChangeBoxConfig ==
    /\ page = "boxes"
    /\ \E i \in DOMAIN products : \E t \in ConfigTexts :
          handleConfigChange(products[i].id, t)
    /\ UNCHANGED <<orders, products, customers, nextId, session2, calls, page,
                   ordersVars, detailVars, statementVars, histVars>>

NextBoxes == ChangeBoxConfig

SpecBoxes == InitBoxes /\ [][NextBoxes]_vars




(***************************************************************************)
(* Payment allocation: what a run of handleSavePayment that issued its     *)
(* updates did to the orders of its snapshot.                              *)
(***************************************************************************)
Issued == lastSave.outcome = "issued"

SnapshotOrders == lastSave.summary.orders

\* the updateOrder requests the run put in flight
IssuedCalls == lastSave.post.calls \ lastSave.pre.calls

\* amount_paid of the snapshot order o before and after the run
PriorPaid(o) == OrZero(o.amount_paid)

UpdatesOf(o) == Filter(lastSave.updates, LAMBDA u : u.orderId = o.id)

FinalPaid(o) ==
    IF Len(UpdatesOf(o)) = 0 THEN PriorPaid(o) ELSE UpdatesOf(o)[1].newAmountPaid

Share(o) == Minus(FinalPaid(o), PriorPaid(o))

Outstanding(o) == Gt(Minus(o.total_amount, PriorPaid(o)), 0)

\* every update is for one order of the snapshot, no order has two, and the
\* requests in flight are the updates
UpdatesWellFormed ==
    /\ \A i \in 1..Len(lastSave.updates) :
          \E j \in 1..Len(SnapshotOrders) :
              SnapshotOrders[j].id = lastSave.updates[i].orderId
    /\ \A j \in 1..Len(SnapshotOrders) : Len(UpdatesOf(SnapshotOrders[j])) <= 1
    /\ {[orderId |-> c.orderId, newAmountPaid |-> c.amount_paid] : c \in IssuedCalls}
           = Range(lastSave.updates)
    /\ \A c \in IssuedCalls : c.op = "update"

\* the orders of the spec's examples: (total 100, paid 0, T1) and
\* (total 50, paid 0, T2 > T1), as the store lists them
ExampleOrders ==
    <<[id |-> 2, customer_id |-> 1, customer_name |-> 1, date |-> 1,
       items |-> <<>>,
       total_amount |-> 50, amount_paid |-> 0, created_at |-> 2],
      [id |-> 1, customer_id |-> 1, customer_name |-> 1, date |-> 1,
       items |-> <<>>,
       total_amount |-> 100, amount_paid |-> 0, created_at |-> 1]>>

ExampleSummary == DetailSummary(ExampleOrders, 1)

\* C1: conservation of payment. In every run of handleSavePayment that
\* accepted its amount, on a snapshot with at least one order, the shares
\* (newAmountPaid - prior amount_paid) of the snapshot's orders add up to
\* the entered amount, overpayment or not.
C1_Conservation ==
    (Issued /\ Len(SnapshotOrders) >= 1) =>
        /\ UpdatesWellFormed
        /\ SumOver(SnapshotOrders, Share) = lastSave.amount

C1_Witness ==
    /\ Issued
    /\ Len(lastSave.updates) = 2
    /\ lastSave.asked
    /\ lastSave.amount = 3
    /\ SumOver(SnapshotOrders, Share) = 3

\* C2: a payment never decreases amount_paid. Every update request issued
\* carries an amount_paid that is at least the snapshot's amount_paid of
\* its order; an order without a request keeps its value.
C2_NeverDecreases ==
    Issued =>
        /\ \A c \in IssuedCalls :
              \E j \in 1..Len(SnapshotOrders) :
                  /\ SnapshotOrders[j].id = c.orderId
                  /\ c.amount_paid >= PriorPaid(SnapshotOrders[j])
        /\ \A j \in 1..Len(SnapshotOrders) :
              FinalPaid(SnapshotOrders[j]) >= PriorPaid(SnapshotOrders[j])

C2_Witness ==
    /\ Issued
    /\ \E j \in 1..Len(SnapshotOrders) :
          /\ PriorPaid(SnapshotOrders[j]) = 2
          /\ FinalPaid(SnapshotOrders[j]) = 3
    /\ \E j \in 1..Len(SnapshotOrders) : Len(UpdatesOf(SnapshotOrders[j])) = 0

\* C3: oldest first. An order of the snapshot gets a positive share only if
\* every older order with outstanding balance ends at amount_paid =
\* total_amount; orders (100, 0, T1), (50, 0, T2) with payment 120 end at
\* 100 and 20.
C3_OldestFirst ==
    /\ Issued =>
          \A i, j \in 1..Len(SnapshotOrders) :
              LET a == SnapshotOrders[i]
                  b == SnapshotOrders[j]
              IN  (/\ a.created_at < b.created_at
                   /\ Outstanding(a)
                   /\ Gt(Share(b), 0))
                  => FinalPaid(a) = a.total_amount
    /\ Allocate(ExampleSummary, 120) =
           <<[orderId |-> 1, newAmountPaid |-> 100],
             [orderId |-> 2, newAmountPaid |-> 20]>>

C3_Witness ==
    /\ Issued
    /\ \E i, j \in 1..Len(SnapshotOrders) :
          LET a == SnapshotOrders[i]
              b == SnapshotOrders[j]
          IN  /\ a.created_at < b.created_at
              /\ Outstanding(a) /\ Outstanding(b)
              /\ Share(a) = 2
              /\ Share(b) = 1
              /\ FinalPaid(b) < b.total_amount

\* C4: without overpayment nobody is overpaid. When the entered amount does
\* not exceed the snapshot's balance and every order of the snapshot has
\* amount_paid <= total_amount, each order's share is at most its own
\* outstanding balance and each order ends with amount_paid <= total_amount.
C4_NoOverpayWithinBalance ==
    (/\ Issued
     /\ Leq(lastSave.amount, lastSave.summary.balance)
     /\ \A j \in 1..Len(SnapshotOrders) :
           PriorPaid(SnapshotOrders[j]) <= SnapshotOrders[j].total_amount)
    => \A j \in 1..Len(SnapshotOrders) :
          LET o == SnapshotOrders[j]
          IN  /\ Share(o) <= Minus(o.total_amount, PriorPaid(o))
              /\ FinalPaid(o) <= o.total_amount

C4_Witness ==
    /\ Issued
    /\ ~lastSave.asked
    /\ Len(lastSave.updates) = 2
    /\ \A j \in 1..Len(SnapshotOrders) :
          PriorPaid(SnapshotOrders[j]) <= SnapshotOrders[j].total_amount
    /\ \E j \in 1..Len(SnapshotOrders) :
          FinalPaid(SnapshotOrders[j]) < SnapshotOrders[j].total_amount

\* what is left of the amount once every outstanding order is settled
SettledLeftover ==
    Minus(lastSave.amount,
          SumOver(pendingOrders(lastSave.summary), orderBalance))

NewestOf(os) ==
    CHOOSE o \in Range(os) : \A p \in Range(os) : p.created_at <= o.created_at

\* C5: the overpayment leftover. If payment is left after every outstanding
\* order of the snapshot is settled, all of it goes to the newest
\* outstanding order (the last one updated), the other outstanding orders
\* ending at their total_amount; if no order was outstanding, it goes to
\* the most recently created order. Orders (100, 0, T1), (50, 0, T2) with a
\* confirmed payment of 200 end at 100 and 100.
C5_LeftoverRule ==
    /\ (Issued /\ Len(SnapshotOrders) >= 1 /\ Gt(SettledLeftover, 0)) =>
          LET pending == Filter(SnapshotOrders, Outstanding)
          IN  IF Len(pending) > 0
              THEN LET last == NewestOf(pending)
                   IN  /\ Len(lastSave.updates) = Len(pending)
                       /\ lastSave.updates[Len(lastSave.updates)].orderId = last.id
                       /\ FinalPaid(last) = Plus(last.total_amount, SettledLeftover)
                       /\ \A o \in Range(pending) \ {last} :
                             FinalPaid(o) = o.total_amount
              ELSE LET newest == NewestOf(SnapshotOrders)
                   IN  /\ Len(lastSave.updates) = 1
                       /\ lastSave.updates[1].orderId = newest.id
                       /\ FinalPaid(newest) = Plus(PriorPaid(newest), lastSave.amount)
    /\ Allocate(ExampleSummary, 200) =
           <<[orderId |-> 1, newAmountPaid |-> 100],
             [orderId |-> 2, newAmountPaid |-> 100]>>

C5_Witness ==
    /\ Issued
    /\ SettledLeftover = 2
    /\ Len(Filter(SnapshotOrders, Outstanding)) = 2
    /\ FinalPaid(NewestOf(SnapshotOrders)) =
           NewestOf(SnapshotOrders).total_amount + 2


\* a positive finite number
PositiveFinite(x) == x # NaN /\ x # Null /\ x > 0 /\ x < Infinity

Ran == lastSave.outcome # "none"

\* the run left the store, the requests in flight, isSubmitting and the
\* dialog as they were
NothingDone ==
    /\ IssuedCalls = {}
    /\ lastSave.post.calls = lastSave.pre.calls
    /\ lastSave.post.orders = lastSave.pre.orders
    /\ lastSave.post.isSubmitting = lastSave.pre.isSubmitting
    /\ lastSave.post.paymentModal = lastSave.pre.paymentModal

\* C6: handleSavePayment rejects every amount that is not a positive finite
\* number (NaN, zero, negative, infinite): no updateOrder is issued,
\* isSubmitting is not set, the store and the dialog stay as they were.
C6_RejectsNotPositiveFinite ==
    (Ran /\ ~PositiveFinite(lastSave.amount)) => NothingDone

\* C7: overpayment is never silent. When the entered amount exceeds the
\* balance of the dialog's summary, updateOrder requests are issued only
\* after the user has confirmed; if the user declines, nothing is issued
\* and the store is unchanged.
C7_OverpaymentConfirmed ==
    (/\ Ran
     /\ lastSave.outcome # "rejected"
     /\ Gt(lastSave.amount, lastSave.summary.balance))
    => /\ lastSave.asked
       /\ IssuedCalls # {} => lastSave.answer
       /\ ~lastSave.answer => (lastSave.outcome = "declined" /\ NothingDone)

C7_Witness ==
    /\ lastSave.outcome = "declined"
    /\ lastSave.amount = 3
    /\ lastSave.summary.balance = 2
    /\ lastSave.post.calls = {}
    /\ orders = lastSave.pre.orders

(***************************************************************************)
(* The order store under the whole machine.                                *)
(***************************************************************************)
Overpaid(o) == Gt(OrZero(o.amount_paid), o.total_amount)

\* C8: in every reachable state of the order store, after any sequence of
\* order creations, payment recordings, replace-on-edit and deletions, an
\* order has amount_paid > total_amount only if the user confirmed an
\* overpayment for its customer and day.
C8_OverpaidOnlyConfirmed ==
    \A i \in DOMAIN orders :
        Overpaid(orders[i]) =>
            <<orders[i].customer_id, orders[i].date>> \in overpaid

(***************************************************************************)
(* The summaries on the screen.  A shown group is [inputs, rows]: the line *)
(* items of the orders of the group, and the allItems shown for it.        *)
(***************************************************************************)
ItemsOfOrders(os) == FlatMap(os, LAMBDA o : o.items)

\* the cards of the Orders page
OrdersGroups ==
    IF page # "orders" THEN <<>>
    ELSE LET shown == customerDailySummaries(dailyOrders(orders, selectedDate))
         IN  [i \in 1..Len(shown) |->
                [inputs |-> ItemsOfOrders(Filter(orders, LAMBDA o :
                                /\ o.date = selectedDate
                                /\ o.customer_id = shown[i].customerId)),
                 rows   |-> shown[i].allItems]]

\* the days of one customer statement
StatementGroupsOf(cs) ==
    LET shown == getDailySummariesForStatement(cs.orders)
    IN  [i \in 1..Len(shown) |->
            [inputs |-> ItemsOfOrders(Filter(cs.orders, LAMBDA o :
                                                 o.date = shown[i].date)),
             rows   |-> shown[i].allItems]]

\* the days of the generated statement
StatementGroups ==
    IF page # "statement" \/ ~generatedStatement.generated THEN <<>>
    ELSE FlatMap(generatedStatement.result.customerStatements, StatementGroupsOf)

\* the days of the Customer-detail page
DetailGroups ==
    IF page # "customer" THEN <<>>
    ELSE LET shown == dailySummaries(customerOrders(orders, id))
         IN  [i \in 1..Len(shown) |->
                [inputs |-> ItemsOfOrders(Filter(orders, LAMBDA o :
                                /\ o.customer_id = id
                                /\ o.date = shown[i].date)),
                 rows   |-> shown[i].allItems]]

SameKey(a, b) == a.product_id = b.product_id /\ a.price = b.price

\* the rows of g merge its inputs key by key, nothing lost and nothing added
Conserved(g) ==
    /\ \A i \in DOMAIN g.inputs :
          \E k \in DOMAIN g.rows : SameKey(g.rows[k], g.inputs[i])
    /\ \A k \in DOMAIN g.rows :
          LET same == Filter(g.inputs, LAMBDA item : SameKey(item, g.rows[k]))
          IN  /\ Len(same) > 0
              /\ g.rows[k].quantity = SumOver(same, LAMBDA item : item.quantity)
              /\ g.rows[k].total = SumOver(same, LAMBDA item : item.total)
    /\ SumOver(g.rows, LAMBDA item : item.total)
           = SumOver(g.inputs, LAMBDA item : item.total)

\* C9: merge conservation in the Order Aggregator (Orders page and
\* Statement): for every group and every (product_id, price) key the merged
\* row's quantity is the sum of the quantities of the input line items of
\* that key and its total the sum of their line totals, so the merged totals
\* of a group add up to the totals of all its input line items.
C9_MergeConservation ==
    /\ \A i \in DOMAIN OrdersGroups : Conserved(OrdersGroups[i])
    /\ \A i \in DOMAIN StatementGroups : Conserved(StatementGroups[i])

\* the edit dialog was opened on a card whose two line items of one key,
\* of quantities 1 and 2, are one row of quantity 3
C9_Witness ==
    /\ page = "orders"
    /\ editingSummary # NoOrdersSummary
    /\ \E i \in DOMAIN OrdersGroups :
          /\ Len(OrdersGroups[i].inputs) = 2
          /\ OrdersGroups[i].inputs[1].quantity = 1
          /\ OrdersGroups[i].inputs[2].quantity = 2
          /\ OrdersGroups[i].rows = editingSummary.allItems
          /\ Len(editingSummary.allItems) = 1
          /\ editingSummary.allItems[1].quantity = 3

\* at most one row of g per key, and every key of its inputs has its row
OneRowPerKey(g) ==
    /\ \A j, k \in DOMAIN g.rows : SameKey(g.rows[j], g.rows[k]) => j = k
    /\ \A i \in DOMAIN g.inputs :
          \E k \in DOMAIN g.rows : SameKey(g.rows[k], g.inputs[i])

\* C10: in every daily summary shown to the user (Orders page, Statement,
\* Customer detail) allItems holds at most one row per (product_id, price)
\* key, and line items of one product at different unit prices stay
\* separate rows.
C10_OneRowPerKey ==
    /\ \A i \in DOMAIN OrdersGroups : OneRowPerKey(OrdersGroups[i])
    /\ \A i \in DOMAIN StatementGroups : OneRowPerKey(StatementGroups[i])
    /\ \A i \in DOMAIN DetailGroups : OneRowPerKey(DetailGroups[i])

(***************************************************************************)
(* Group totals.  The input of an aggregator is the list it groups: the    *)
(* day's orders on the Orders page, the customer's orders on the           *)
(* Customer-detail page, the orders of one customer statement.             *)
(***************************************************************************)
\* amount_paid of o, a missing one counting as 0
PaidOf(o) == IF o.amount_paid = Null THEN 0 ELSE o.amount_paid

SumTotal(os) == SumOver(os, LAMBDA o : o.total_amount)

SumPaid(os) == SumOver(os, PaidOf)

IdsOf(os) == [k \in 1..Len(os) |-> os[k].id]

\* the summaries shown have different keys and every order of input has the
\* key of exactly one of them
OneGroupEach(input, shown, KeyOfOrder(_), KeyOfGroup(_)) ==
    /\ \A i, j \in DOMAIN shown :
          KeyOfGroup(shown[i]) = KeyOfGroup(shown[j]) => i = j
    /\ \A k \in DOMAIN input :
          Cardinality({i \in DOMAIN shown :
                          KeyOfGroup(shown[i]) = KeyOfOrder(input[k])}) = 1
    /\ \A i \in DOMAIN shown :
          \E k \in DOMAIN input : KeyOfGroup(shown[i]) = KeyOfOrder(input[k])

OrdersInput == dailyOrders(orders, selectedDate)

OrdersTotals ==
    LET shown == customerDailySummaries(OrdersInput)
    IN  /\ OneGroupEach(OrdersInput, shown,
                        LAMBDA o : o.customer_id, LAMBDA g : g.customerId)
        /\ \A i \in DOMAIN shown :
              LET members == Filter(OrdersInput, LAMBDA o :
                                       o.customer_id = shown[i].customerId)
              IN  /\ shown[i].orderIds = IdsOf(members)
                  /\ shown[i].totalAmount = SumTotal(members)
                  /\ shown[i].amountPaid = SumPaid(members)

DetailInput == customerOrders(orders, id)

DetailTotals ==
    LET shown == dailySummaries(DetailInput)
    IN  /\ OneGroupEach(DetailInput, shown,
                        LAMBDA o : o.date, LAMBDA g : g.date)
        /\ \A i \in DOMAIN shown :
              LET members == Filter(DetailInput, LAMBDA o :
                                       o.date = shown[i].date)
              IN  /\ shown[i].orders = members
                  /\ shown[i].totalAmount = SumTotal(members)
                  /\ shown[i].totalPaid = SumPaid(members)
                  /\ shown[i].balance =
                         shown[i].totalAmount - shown[i].totalPaid

StatementTotalsOf(cs) ==
    LET shown == getDailySummariesForStatement(cs.orders)
    IN  /\ OneGroupEach(cs.orders, shown,
                        LAMBDA o : o.date, LAMBDA g : g.date)
        /\ \A i \in DOMAIN shown :
              LET members == Filter(cs.orders, LAMBDA o :
                                       o.date = shown[i].date)
              IN  /\ shown[i].totalAmount = SumTotal(members)
                  /\ shown[i].totalPaid = SumPaid(members)
                  /\ shown[i].balance =
                         shown[i].totalAmount - shown[i].totalPaid

\* C11: group totals. On each page every order of the aggregator's input
\* belongs to exactly one group (its customer on the Orders page, its date
\* on the Customer-detail page and in a customer statement), and each group
\* has totalAmount = the sum of total_amount of its orders, totalPaid (or
\* amountPaid) = the sum of their amount_paid, a missing one counting as 0,
\* and, where the summary carries a balance, balance = totalAmount -
\* totalPaid.
C11_GroupTotals ==
    /\ page = "orders" => OrdersTotals
    /\ page = "customer" => DetailTotals
    /\ (page = "statement" /\ generatedStatement.generated) =>
           \A i \in DOMAIN generatedStatement.result.customerStatements :
               StatementTotalsOf(generatedStatement.result.customerStatements[i])

\* the edit dialog was opened on a card of two orders, one of them without
\* amount_paid, whose totals are the sums over both
C11_Witness ==
    /\ page = "orders"
    /\ editingSummary # NoOrdersSummary
    /\ editingSummary \in Range(customerDailySummaries(OrdersInput))
    /\ Len(editingSummary.orderIds) = 2
    /\ \E k \in DOMAIN OrdersInput : OrdersInput[k].amount_paid = Null
    /\ editingSummary.amountPaid = 2
    /\ editingSummary.totalAmount = 3

(***************************************************************************)
(* The foot of a day's card on the Customer-detail page.                   *)
(***************************************************************************)
\* totalAmount - totalPaid of a shown day
BalanceOf(s) == s.totalAmount - s.totalPaid

\* C12: on the Customer-detail page a day is shown as Fully Paid exactly
\* when its balance (totalAmount - totalPaid) is <= 0 and the Record Payment
\* button is offered exactly when the balance is > 0, so each day shows one
\* of the two and never both; the payment dialog is open only on a day
\* whose balance is > 0.
C12_FullyPaidOrPayable ==
    page = "customer" =>
        /\ \A s \in Range(dailySummaries(DetailInput)) :
              /\ FullyPaid(s) <=> BalanceOf(s) <= 0
              /\ RecordPaymentOffered(s) <=> BalanceOf(s) > 0
              /\ FullyPaid(s) # RecordPaymentOffered(s)
        /\ paymentModal.show =>
              /\ paymentModal.summary \in Range(dailySummaries(DetailInput))
              /\ BalanceOf(paymentModal.summary) > 0

\* the dialog was opened on a day with balance 1 while another day, paid in
\* full (balance 0), shows Fully Paid
C12_Witness ==
    /\ page = "customer"
    /\ paymentModal.show
    /\ BalanceOf(paymentModal.summary) = 1
    /\ \E s \in Range(dailySummaries(DetailInput)) :
          /\ s.totalAmount = 2
          /\ BalanceOf(s) = 0
          /\ FullyPaid(s)

(***************************************************************************)
(* The aggregators as procedures over objects.                             *)
(***************************************************************************)
\* merging the inputs of g leaves the input objects as they were, its rows
\* are new objects, and they are the rows shown
InputsUntouched(g) ==
    LET st == AggregateOnHeap(g.inputs)
    IN  /\ Len(st.heap) >= Len(g.inputs)
        /\ SubSeq(st.heap, 1, Len(g.inputs)) = g.inputs
        /\ \A k \in DOMAIN st.agg : st.agg[k].ref > Len(g.inputs)
        /\ RowsOnHeap(st) = g.rows

\* no input gives no group, and a group without line items has no rows
EmptyHandled ==
    /\ customerDailySummaries(<<>>) = <<>>
    /\ getDailySummariesForStatement(<<>>) = <<>>
    /\ (page = "orders" /\ OrdersInput = <<>>) => OrdersGroups = <<>>
    /\ \A i \in DOMAIN OrdersGroups :
          OrdersGroups[i].inputs = <<>> => OrdersGroups[i].rows = <<>>
    /\ \A i \in DOMAIN StatementGroups :
          StatementGroups[i].inputs = <<>> => StatementGroups[i].rows = <<>>

\* C13: the aggregators of the Orders page and of the Statement are total
\* and free of side effects: an empty order list gives no group, orders
\* without line items give a group with empty allItems, and merging leaves
\* every input line item as it was, the merged rows being copies and not
\* the input objects.
C13_TotalAndPure ==
    /\ EmptyHandled
    /\ \A i \in DOMAIN OrdersGroups : InputsUntouched(OrdersGroups[i])
    /\ \A i \in DOMAIN StatementGroups : InputsUntouched(StatementGroups[i])

\* a generated statement with a day whose two line items of one key are one
\* row that differs from both, and a day of orders without line items
C13_Witness ==
    /\ page = "statement"
    /\ generatedStatement.generated
    /\ \E i \in DOMAIN StatementGroups :
          LET g == StatementGroups[i]
          IN  /\ Len(g.inputs) = 2
              /\ Len(g.rows) = 1
              /\ g.rows[1] # g.inputs[1]
              /\ g.rows[1] # g.inputs[2]
              /\ AggregateOnHeap(g.inputs).heap[1] = g.inputs[1]
    /\ \E i \in DOMAIN StatementGroups :
          StatementGroups[i].inputs = <<>> /\ StatementGroups[i].rows = <<>>

(***************************************************************************)
(* The generated statement.  Its filters are those of the form: in SpecAgg *)
(* they are set before the statement is generated.                         *)
(***************************************************************************)
Generated == page = "statement" /\ generatedStatement.generated

Statement == generatedStatement.result

\* the orders of the store the filters of the form select
SelectedOrders ==
    {o \in Range(orders) :
        /\ startDate <= o.date
        /\ o.date <= endDate
        /\ (selectedCustomerId # AllCustomers
               => o.customer_id = selectedCustomerId)}

\* the orders listed in the customer statements
ListedOrders == FlatMap(Statement.customerStatements, LAMBDA cs : cs.orders)

\* C14: generateStatementData selects exactly the orders whose date d has
\* start <= d <= end, both bounds included, and, when one customer is
\* chosen, whose customer_id is that customer; with 'all' no order in range
\* is dropped; no order is listed twice and totalOrders is the number of
\* selected orders.
C14_SelectsRange ==
    Generated =>
        /\ Range(ListedOrders) = SelectedOrders
        /\ Len(ListedOrders) = Cardinality(SelectedOrders)
        /\ Statement.totalOrders = Cardinality(SelectedOrders)
        /\ selectedCustomerId = AllCustomers =>
               \A o \in Range(orders) :
                   (startDate <= o.date /\ o.date <= endDate)
                       => o \in Range(ListedOrders)

\* a statement for all customers from day 1 to day 2 lists the order of
\* day 1 and the order of day 2
C14_Witness ==
    /\ Generated
    /\ selectedCustomerId = AllCustomers
    /\ startDate = 1
    /\ endDate = 2
    /\ Statement.totalOrders = 2
    /\ \E o \in Range(ListedOrders) : o.date = startDate
    /\ \E o \in Range(ListedOrders) : o.date = endDate

\* the selected orders, as the store lists them
SelectedList == Filter(orders, LAMBDA o : o \in SelectedOrders)

SelectedOf(cid) == Filter(SelectedList, LAMBDA o : o.customer_id = cid)

ZeroStatement ==
    [customerStatements |-> <<>>, grandTotalAmount |-> 0, grandTotalPaid |-> 0,
     grandTotalPending |-> 0, totalOrders |-> 0]

\* C15: statement totals. Each customer statement has totalAmount and
\* totalPaid equal to the sums over that customer's selected orders and
\* pendingAmount = totalAmount - totalPaid; the grand totals are the sums
\* over all selected orders and over the per-customer figures; with no
\* order in range the statement is the empty customer list with grand
\* totals 0 and totalOrders 0.
C15_StatementTotals ==
    Generated =>
        /\ \A i \in DOMAIN Statement.customerStatements :
              LET cs == Statement.customerStatements[i]
              IN  /\ Range(cs.orders) = Range(SelectedOf(cs.customerId))
                  /\ cs.orders # <<>>
                  /\ cs.totalAmount = SumTotal(SelectedOf(cs.customerId))
                  /\ cs.totalPaid = SumPaid(SelectedOf(cs.customerId))
                  /\ cs.pendingAmount = cs.totalAmount - cs.totalPaid
        /\ Statement.grandTotalAmount = SumTotal(SelectedList)
        /\ Statement.grandTotalPaid = SumPaid(SelectedList)
        /\ Statement.grandTotalPending =
               Statement.grandTotalAmount - Statement.grandTotalPaid
        /\ Statement.grandTotalAmount =
               SumOver(Statement.customerStatements, LAMBDA cs : cs.totalAmount)
        /\ Statement.grandTotalPaid =
               SumOver(Statement.customerStatements, LAMBDA cs : cs.totalPaid)
        /\ Statement.grandTotalPending =
               SumOver(Statement.customerStatements, LAMBDA cs : cs.pendingAmount)
        /\ SelectedOrders = {} => Statement = ZeroStatement

\* a statement of two customers, 4 ordered and 3 paid between them
C15_Witness ==
    /\ Generated
    /\ Len(Statement.customerStatements) = 2
    /\ Statement.grandTotalAmount = 4
    /\ Statement.grandTotalPaid = 3
    /\ Statement.grandTotalPending = 1
    /\ Statement.customerStatements[1].pendingAmount = 0
    /\ Statement.customerStatements[2].pendingAmount = 1

(***************************************************************************)
(* The rows of the Box-calculator page.  totalQuantity is a sum of the     *)
(* quantities sold today, a non-negative whole number.                     *)
(***************************************************************************)
Configured(row) == row.piecesPerBox > 0

\* C16: for every non-negative whole totalQuantity and every unitsPerBox
\* > 0, calculateBoxNeeds returns fullBoxes = floor(total / unitsPerBox),
\* remainingPieces = total mod unitsPerBox and neededForNextBox = 0 if the
\* remainder is 0, else unitsPerBox - remainder; total 23 and unitsPerBox 5
\* give 4, 3 and 2.
C16_BoxNeeds ==
    /\ \A i \in DOMAIN BoxRows :
          LET row == BoxRows[i]
              t   == row.totalQuantity
              u   == row.piecesPerBox
          IN  Configured(row) =>
                  /\ ~row.calculation.isNull
                  /\ row.calculation.fullBoxes = t \div u
                  /\ row.calculation.remainingPieces = t % u
                  /\ row.calculation.neededForNextBox =
                         IF t % u = 0 THEN 0 ELSE u - (t % u)
    /\ calculateBoxNeeds(23, 5) =
           [isNull |-> FALSE, fullBoxes |-> 4, remainingPieces |-> 3,
            neededForNextBox |-> 2]

\* 8 sold at 3 per box: 2 boxes, 2 loose, 1 needed
C16_Witness ==
    /\ page = "boxes"
    /\ \E i \in DOMAIN BoxRows :
          /\ BoxRows[i].totalQuantity = 8
          /\ BoxRows[i].piecesPerBox = 3
          /\ BoxRows[i].calculation =
                 [isNull |-> FALSE, fullBoxes |-> 2, remainingPieces |-> 2,
                  neededForNextBox |-> 1]

\* C17: box decomposition. For every totalQuantity >= 0 and unitsPerBox > 0,
\* fullBoxes * unitsPerBox + remainingPieces = totalQuantity and
\* 0 <= remainingPieces < unitsPerBox.
C17_BoxDecomposition ==
    \A i \in DOMAIN BoxRows :
        LET row == BoxRows[i]
        IN  Configured(row) =>
                /\ row.calculation.fullBoxes * row.piecesPerBox
                       + row.calculation.remainingPieces = row.totalQuantity
                /\ 0 <= row.calculation.remainingPieces
                /\ row.calculation.remainingPieces < row.piecesPerBox

\* 9 sold at 4 per box: 2 boxes and 1 loose
C17_Witness ==
    /\ page = "boxes"
    /\ \E i \in DOMAIN BoxRows :
          /\ BoxRows[i].totalQuantity = 9
          /\ BoxRows[i].piecesPerBox = 4
          /\ BoxRows[i].calculation.fullBoxes = 2
          /\ BoxRows[i].calculation.remainingPieces = 1

\* C18: for every totalQuantity >= 0 and unitsPerBox > 0, neededForNextBox
\* is 0 if and only if remainingPieces is 0; otherwise 0 < neededForNextBox
\* < unitsPerBox and totalQuantity + neededForNextBox is a multiple of
\* unitsPerBox.
C18_NeededForNextBox ==
    \A i \in DOMAIN BoxRows :
        LET row  == BoxRows[i]
            calc == row.calculation
        IN  Configured(row) =>
                /\ calc.neededForNextBox = 0 <=> calc.remainingPieces = 0
                /\ calc.remainingPieces # 0 =>
                       /\ 0 < calc.neededForNextBox
                       /\ calc.neededForNextBox < row.piecesPerBox
                       /\ (row.totalQuantity + calc.neededForNextBox)
                              % row.piecesPerBox = 0

\* one row with full boxes only (3 at 3 per box, nothing needed) and one
\* that needs 3 more (5 at 4 per box)
C18_Witness ==
    /\ page = "boxes"
    /\ \E i, j \in DOMAIN BoxRows :
          /\ BoxRows[i].totalQuantity = 3
          /\ BoxRows[i].piecesPerBox = 3
          /\ BoxRows[i].calculation.remainingPieces = 0
          /\ BoxRows[i].calculation.neededForNextBox = 0
          /\ BoxRows[j].totalQuantity = 5
          /\ BoxRows[j].piecesPerBox = 4
          /\ BoxRows[j].calculation.neededForNextBox = 3

\* C19: when unitsPerBox <= 0, the unset default 0 included,
\* calculateBoxNeeds returns null for every totalQuantity, and it returns
\* numbers only when unitsPerBox > 0.
C19_NotConfigured ==
    /\ \A i \in DOMAIN BoxRows :
          /\ BoxRows[i].piecesPerBox <= 0 => BoxRows[i].calculation = NoBoxNeeds
          /\ ~BoxRows[i].calculation.isNull => BoxRows[i].piecesPerBox > 0
          /\ BoxRows[i].productId \notin DOMAIN boxConfigs
                 => BoxRows[i].calculation = NoBoxNeeds
    /\ \A t \in 0..MaxSold : \A u \in (0 - MaxPieces)..0 :
          calculateBoxNeeds(t, u) = NoBoxNeeds

\* product 1, 5 sold, was set to 0 pcs/box and product 2 was never set:
\* neither row has a calculation
C19_Witness ==
    /\ page = "boxes"
    /\ DOMAIN boxConfigs = {1}
    /\ boxConfigs[1] = 0
    /\ \E i \in DOMAIN BoxRows :
          /\ BoxRows[i].productId = 1
          /\ BoxRows[i].totalQuantity = 5
    /\ \A i \in DOMAIN BoxRows : BoxRows[i].calculation.isNull

(***************************************************************************)
(* The orders written by the Orders page.                                  *)
(***************************************************************************)
TotalIsSum(o) == o.total_amount = SumOver(o.items, LAMBDA item : item.total)

\* the rows handed to addOrder and not yet inserted
RowsInFlight ==
    {c.order : c \in {d \in calls : d.op = "add"
                                     \/ (d.owner = "handleSaveEdit"
                                           /\ d.order # NoOrder)}}

\* every order in the store or on its way to it has the total of its items
TotalsAreSums ==
    /\ \A i \in DOMAIN orders : TotalIsSum(orders[i])
    /\ \A o \in RowsInFlight : TotalIsSum(o)

\* a step that changes a price leaves the stored orders and the rows in
\* flight as they are
PriceChangeKeepsOrders ==
    products' # products => (orders' = orders /\ RowsInFlight' = RowsInFlight)

StoredIds(os) == {os[i].id : i \in DOMAIN os}

SaveEditAdds(cs) == {c \in cs : c.op = "add" /\ c.owner = "handleSaveEdit"}

ReplacementAfterDeletes ==
    (SaveEditAdds(calls') \ SaveEditAdds(calls) # {}) =>
        /\ ~\E d \in calls' :
               d.op = "delete" /\ d.owner = "handleSaveEdit" /\ d.live
        /\ Range(editingSummary.orderIds) \cap StoredIds(orders') = {}

\* the step that ends a run of handleSaveEdit with the dialog left open
FailedRunInsertsNothing ==
    (/\ \E c \in calls \ calls' : c.owner = "handleSaveEdit" /\ c.live
     /\ ordersSubmitting
     /\ ~ordersSubmitting'
     /\ editingSummary # NoOrdersSummary
     /\ editingSummary' # NoOrdersSummary) =>
        /\ SaveEditAdds(calls') = {}
        /\ orders' = orders

C21_ReplacementAfterDeletes ==
    [][ReplacementAfterDeletes /\ FailedRunInsertsNothing]_vars

\* the edit of a day of two orders has ended on a failure: one order is
\* gone, the other is left, no replacement was inserted and none is on its way
C21_Witness ==
    /\ page = "orders"
    /\ calls = {}
    /\ ~ordersSubmitting
    /\ editingSummary # NoOrdersSummary
    /\ Len(editingOrderItems) > 0
    /\ Len(editingSummary.orderIds) = 2
    /\ Cardinality(Range(editingSummary.orderIds) \cap StoredIds(orders)) = 1
    /\ Len(orders) = 1
    /\ nextId = MaxDrawn + 1


(***************************************************************************)
(* C22: a run of handleSaveEdit that succeeds, whatever the edited items,  *)
(* leaves the customer of the dialog with exactly one order on the         *)
(* selected date: its items are the edited items, its total_amount is the  *)
(* sum of their totals, its amount_paid is the amountPaid of the edited    *)
(* summary (the summed amount_paid of the orders it replaces).             *)
(***************************************************************************)
\* the step that ends a run of handleSaveEdit with the dialog closed
SaveEditSucceeds ==
    /\ \E c \in calls \ calls' : c.owner = "handleSaveEdit" /\ c.live
    /\ ordersSubmitting
    /\ ~ordersSubmitting'
    /\ editingSummary # NoOrdersSummary
    /\ editingSummary' = NoOrdersSummary

DayOrders(os, cid, date) ==
    Filter(os, LAMBDA o : o.customer_id = cid /\ o.date = date)

OneConsolidatedOrder(os, summary, items, date) ==
    LET day == DayOrders(os, summary.customerId, date)
    IN  /\ Len(day) = 1
        /\ day[1].items = items
        /\ day[1].total_amount = SumOver(items, LAMBDA item : item.total)
        /\ day[1].amount_paid = summary.amountPaid

C22_EditConsolidates ==
    [][SaveEditSucceeds =>
          OneConsolidatedOrder(orders', editingSummary, editingOrderItems,
                               selectedDate)]_vars

\* C22 for the edits that leave an item in the list; the others leave the
\* customer without an order on that date
EditedToNothing ==
    SaveEditSucceeds /\ Len(editingOrderItems) = 0 =>
        DayOrders(orders', editingSummary.customerId, selectedDate) = <<>>

EditConsolidatesItems ==
    [][/\ SaveEditSucceeds /\ Len(editingOrderItems) > 0 =>
             OneConsolidatedOrder(orders', editingSummary, editingOrderItems,
                                  selectedDate)
       /\ EditedToNothing]_vars


(***************************************************************************)
(* C23: confirmDelete hands every order of the group to deleteOrder in one *)
(* step, before any of the deletes has answered.  The run that succeeds    *)
(* leaves no order of the group, and none of that customer and date; the   *)
(* run that fails leaves the dialog open and the store as the deletes left *)
(* it, the page telling only that it failed; a deleted order never comes   *)
(* back.                                                                   *)
(***************************************************************************)
ConfirmDeletes(cs) ==
    {c \in cs : c.op = "delete" /\ c.owner = "confirmDelete" /\ c.live}

\* the step that starts a run of confirmDelete
DeletesIssuedTogether ==
    (~ordersSubmitting /\ ordersSubmitting' /\ deleteConfirmation.show) =>
        /\ {c.orderId : c \in ConfirmDeletes(calls')} =
               Range(deleteConfirmation.summary.orderIds)
        /\ Cardinality(ConfirmDeletes(calls')) =
               Len(deleteConfirmation.summary.orderIds)
        /\ orders' = orders

\* the step that ends a run of confirmDelete
ConfirmDeleteEnds ==
    /\ \E c \in calls \ calls' : c.owner = "confirmDelete" /\ c.live
    /\ ordersSubmitting
    /\ ~ordersSubmitting'

DeleteSucceeded ==
    (ConfirmDeleteEnds /\ deleteConfirmation' = NoConfirmation) =>
        /\ Range(deleteConfirmation.summary.orderIds)
               \cap StoredIds(orders') = {}
        /\ DayOrders(orders', deleteConfirmation.summary.customerId,
                     selectedDate) = <<>>

DeleteFailed ==
    (ConfirmDeleteEnds /\ deleteConfirmation' # NoConfirmation) =>
        /\ orders' = orders
        /\ UNCHANGED <<selectedDate, showOrderForm, selectedCustomer,
                       orderItems, editingSummary, editingOrderItems,
                       deleteConfirmation>>
        /\ ConfirmDeletes(calls') = {}

NoRollback == StoredIds(orders') \cap (1..MaxDrawn) \subseteq StoredIds(orders)

C23_ConcurrentDeletes ==
    [][DeletesIssuedTogether /\ DeleteSucceeded /\ DeleteFailed
       /\ NoRollback]_vars

\* the delete of a day of two orders has failed: one order is gone, the
\* other is left, the dialog is still open
C23_Witness ==
    /\ page = "orders"
    /\ calls = {}
    /\ ~ordersSubmitting
    /\ deleteConfirmation.show
    /\ Len(deleteConfirmation.summary.orderIds) = 2
    /\ Cardinality(Range(deleteConfirmation.summary.orderIds)
                      \cap StoredIds(orders)) = 1


(***************************************************************************)
(* SpecCalls: the handlers that check their form before they call out:     *)
(* handleSubmitOrder on the Orders page, handleSyncToGoogleSheet and       *)
(* handleTestConnection on the Statement page.  The store is drawn with    *)
(* orders of two customers on two days; each handler is called in whatever *)
(* state the form is in, as the function it is, also where its button is   *)
(* disabled.                                                               *)
(***************************************************************************)
\* (date, customer_id, product, amount_paid) of a drawn order
SyncDraws == {<<1, 1, 1, Null>>, <<1, 1, 2, 1>>, <<1, 2, 1, 1>>, <<2, 1, 1, 0>>}

\* customer 1 is named 2 and customer 2 is named 1: the order by name is not
\* the order by id
SyncOrder(n, draw) ==
    [id |-> n, customer_id |-> draw[2], customer_name |-> 3 - draw[2],
     date |-> draw[1],
     items |-> <<[product_id |-> draw[3], product_name |-> draw[3],
                  quantity |-> 1, price |-> 1, total |-> 1]>>,
     total_amount |-> 1, amount_paid |-> draw[4], created_at |-> n]

SyncStores ==
    UNION {{[i \in 1..n |-> SyncOrder(n + 1 - i, f[i])] :
               f \in [1..n -> SyncDraws]} : n \in 0..MaxDrawn}

\* what the user leaves in the API URL input
UrlTexts == {<<>>, <<"u">>, <<"u", "?", "k">>}

InitCalls ==
    /\ orders \in SyncStores
    /\ products = DrawnProducts
    /\ customers = {1, 2}
    /\ boxConfigs = NoBoxConfigs
    /\ nextId = MaxDrawn + 1
    /\ calls = {}
    /\ page \in {"orders", "statement"}
    /\ selectedDate = 1
    /\ showOrderForm = FALSE
    /\ selectedCustomer = NoCustomer
    /\ orderItems = <<>>
    /\ editingSummary = NoOrdersSummary
    /\ editingOrderItems = <<>>
    /\ deleteConfirmation = NoConfirmation
    /\ ordersSubmitting = FALSE
    /\ id = 1
    /\ paymentModal = ClosedModal
    /\ paymentAmount = <<>>
    /\ isSubmitting = FALSE
    /\ startDate = 1
    /\ endDate = 1
    /\ selectedCustomerId = AllCustomers
    /\ generatedStatement = NoStatement
    /\ SheetIdle
    /\ session2 = NoSession
    /\ lastSave = NoSave
    /\ overpaid = {}

\* onChange of the API URL input
TypeSheetApiUrl ==
    /\ page = "statement"
    /\ \E url \in UrlTexts : sheetApiUrl' = url
    /\ UNCHANGED <<storeVars, calls, page, ordersVars, detailVars, startDate,
                   endDate, selectedCustomerId, generatedStatement, isSyncing,
                   syncStatus, isTesting, testStatus, fetches, histVars>>

\* handleSyncToGoogleSheet called while no run of it is under way
CallSyncToGoogleSheet ==
    /\ page = "statement"
    /\ ~isSyncing
    /\ handleSyncToGoogleSheet
    /\ UNCHANGED <<storeVars, calls, page, ordersVars, detailVars, startDate,
                   endDate, selectedCustomerId, generatedStatement, histVars>>

\* handleTestConnection called while no run of it is under way
CallTestConnection ==
    /\ page = "statement"
    /\ ~isTesting
    /\ handleTestConnection
    /\ UNCHANGED <<storeVars, calls, page, ordersVars, detailVars, startDate,
                   endDate, selectedCustomerId, generatedStatement, histVars>>

\* the fetches without the i-th
WithoutFetch(i) == SubSeq(fetches, 1, i - 1) \o SubSeq(fetches, i + 1, Len(fetches))

\* the sheet service answers a request, or the request fails
FetchResponds ==
    /\ \E i \in DOMAIN fetches : \E outcome \in FetchOutcomes :
          /\ fetches' = WithoutFetch(i)
          /\ IF fetches[i].owner = "handleSyncToGoogleSheet"
             THEN SettleSync(fetches[i], outcome)
             ELSE SettleTest(fetches[i], outcome)
    /\ UNCHANGED <<storeVars, calls, page, ordersVars, detailVars, startDate,
                   endDate, selectedCustomerId, generatedStatement, histVars>>

\* handleSubmitOrder called on the add form while no run of it is under way
CallSubmitOrder ==
    /\ page = "orders"
    /\ showOrderForm
    /\ ~ordersSubmitting
    /\ nextId = MaxDrawn + 1
    /\ handleSubmitOrder
    /\ UNCHANGED <<storeVars, page, detailVars, statementVars, histVars>>

\* + Add Item of the add form, also before a customer is chosen
CallsAddItem ==
    /\ page = "orders"
    /\ showOrderForm
    /\ Len(orderItems) < MaxItems
    /\ handleAddOrderItem(FALSE)
    /\ UNCHANGED <<storeVars, calls, page, selectedDate, showOrderForm,
                   selectedCustomer, editingSummary, deleteConfirmation,
                   ordersSubmitting, detailVars, statementVars, histVars>>

CallsAddOrder == calls = {} /\ ClickAddOrder

CallsSelectCustomer == calls = {} /\ SelectCustomer

CallsRemoveItem == calls = {} /\ ClickRemoveItem

NextCalls ==
    \/ CallsAddOrder
    \/ CallsSelectCustomer
    \/ CallsAddItem
    \/ CallsRemoveItem
    \/ CallSubmitOrder
    \/ StoreResponds
    \/ SelectStartDate
    \/ SelectEndDate
    \/ TypeSheetApiUrl
    \/ CallSyncToGoogleSheet
    \/ CallTestConnection
    \/ FetchResponds

SpecCalls == InitCalls /\ [][NextCalls]_vars

(***************************************************************************)
(* C24: the rows handleSyncToGoogleSheet sends.                            *)
(***************************************************************************)
\* the sync requests in flight
SyncFetches == {fetches[i] : i \in {j \in DOMAIN fetches :
                    fetches[j].owner = "handleSyncToGoogleSheet"}}

\* the orders of os dated within [start, end]
InRange(os, start, end) ==
    {os[i] : i \in {j \in DOMAIN os : start <= os[j].date /\ os[j].date <= end}}

\* the (date, customer_id) pairs that have an order within the range
PairsInRange(os, start, end) ==
    {<<o.date, o.customer_id>> : o \in InRange(os, start, end)}

\* the id text of a pair
PairId(pair) == ToText(pair[1]) \o <<"-">> \o ToText(pair[2])

\* sum of F over the orders of a set, by their position in the store
SumOfPair(os, pair, start, end, F(_)) ==
    SumOver(Filter(os, LAMBDA o : /\ o \in InRange(os, start, end)
                                  /\ <<o.date, o.customer_id>> = pair), F)

\* data has one row for each pair of the range and no other row, and the row
\* carries the day's total and payments of that customer
OneRowPerPair(f) ==
    LET pairs == PairsInRange(orders, f.start, f.end)
    IN  /\ Len(f.data) = Cardinality(pairs)
        /\ \A pair \in pairs : \E i \in DOMAIN f.data :
              /\ f.data[i].ID = PairId(pair)
              /\ f.data[i].Date = pair[1]
              /\ f.data[i].Daily_Total =
                     SumOfPair(orders, pair, f.start, f.end,
                               LAMBDA o : o.total_amount)
              /\ f.data[i].Daily_Paid =
                     SumOfPair(orders, pair, f.start, f.end,
                               LAMBDA o : OrZero(o.amount_paid))

PairwiseDistinctIds(f) ==
    \A i, j \in DOMAIN f.data : i # j => f.data[i].ID # f.data[j].ID

\* a sync of the same store and range now would send what f carries
SameRowsAgain(f) == f.data = dataToSync(orders, f.start, f.end)

FormOrder(n, product, quantity) ==
    [id |-> n, customer_id |-> 1, customer_name |-> 1, date |-> 1,
     items |-> <<[product_id |-> product, product_name |-> product,
                  quantity |-> quantity, price |-> 1, total |-> quantity]>>,
     total_amount |-> quantity, amount_paid |-> 0, created_at |-> n]

FormStores ==
    UNION {{[i \in 1..n |-> FormOrder(n + 1 - i, f[i][1], f[i][2])] :
               f \in [1..n -> {1, 2} \X (1..MaxQty)]} : n \in 0..MaxDrawn}

InitForms ==
    /\ orders \in FormStores
    /\ products = DrawnProducts
    /\ customers = {1}
    /\ boxConfigs = NoBoxConfigs
    /\ nextId = MaxDrawn + 1
    /\ calls = {}
    /\ page = "orders"
    /\ selectedDate = 1
    /\ showOrderForm = FALSE
    /\ selectedCustomer = NoCustomer
    /\ orderItems = <<>>
    /\ editingSummary = NoOrdersSummary
    /\ editingOrderItems = <<>>
    /\ deleteConfirmation = NoConfirmation
    /\ ordersSubmitting = FALSE
    /\ id = 1
    /\ paymentModal = ClosedModal
    /\ paymentAmount = <<>>
    /\ isSubmitting = FALSE
    /\ startDate = 1
    /\ endDate = 1
    /\ selectedCustomerId = AllCustomers
    /\ generatedStatement = NoStatement
    /\ SheetIdle
    /\ session2 = NoSession
    /\ lastSave = NoSave
    /\ overpaid = {}

NextForms ==
    \/ WritesAddOrder
    \/ WritesSelectCustomer
    \/ WritesAddItem
    \/ WritesRemoveItem
    \/ WritesChangeProduct
    \/ WritesChangeQuantity
    \/ WritesCancelOrderForm
    \/ WritesEdit
    \/ WritesCancelEdit
    \/ WritesCreateOrder
    \/ WritesSaveChanges
    \/ StoreResponds

SpecForms == InitForms /\ [][NextForms]_vars

(***************************************************************************)
(* C25: the line totals of the forms.                                      *)
(***************************************************************************)
LineTotalIsProduct(item) == item.total = Times(item.quantity, item.price)

\* the orders inserted since the store was drawn
InsertedOrders == {orders[i] : i \in {j \in DOMAIN orders : orders[j].id > MaxDrawn}}

\* C25: every line item of the add form and of the edit dialog has
\* total = quantity * price, also when its product is no longer in the
\* product list, and so has every line item of an order saved from a form.
C25_LineTotals ==
    /\ \A i \in DOMAIN orderItems : LineTotalIsProduct(orderItems[i])
    /\ \A i \in DOMAIN editingOrderItems : LineTotalIsProduct(editingOrderItems[i])
    /\ \A o \in InsertedOrders : \A i \in DOMAIN o.items :
          LineTotalIsProduct(o.items[i])

\* the same of the items whose product is in the product list
LineTotalsOfListedProducts ==
    LET Listed(item) == \E k \in DOMAIN products : products[k].id = item.product_id
    IN  /\ \A i \in DOMAIN orderItems :
              Listed(orderItems[i]) => LineTotalIsProduct(orderItems[i])
        /\ \A i \in DOMAIN editingOrderItems :
              Listed(editingOrderItems[i]) => LineTotalIsProduct(editingOrderItems[i])

(***************************************************************************)
(* C26: the checks of the forms before a request leaves.                   *)
(***************************************************************************)
\* handleSubmitOrder on a form without customer or without items
SubmitRefused ==
    (CallSubmitOrder /\ (selectedCustomer = NoCustomer \/ Len(orderItems) = 0))
        => /\ calls' = calls
           /\ ~ordersSubmitting'

\* handleSyncToGoogleSheet without URL, or with no order in the range
SyncRefused ==
    (CallSyncToGoogleSheet
        /\ (sheetApiUrl = <<>> \/ InRange(orders, startDate, endDate) = {}))
        => /\ fetches' = fetches
           /\ ~isSyncing'
           /\ syncStatus' # NoStatus
           /\ sheetApiUrl = <<>> => syncStatus'.type = "error"

\* handleTestConnection without URL
TestRefused ==
    (CallTestConnection /\ sheetApiUrl = <<>>)
        => /\ fetches' = fetches
           /\ ~isTesting'
           /\ testStatus'.type = "error"

\* C26: handleSubmitOrder issues no addOrder when no customer is selected or
\* the item list is empty; handleSyncToGoogleSheet and handleTestConnection
\* send no request when the API URL is empty, and the sync sends none when no
\* order lies in the range; each of these runs ends with its busy flag false
\* and, on the Statement page, with a status message.
C26_ValidationBeforeCalls ==
    [][SubmitRefused /\ SyncRefused /\ TestRefused]_vars

\* the sync has been refused for its empty URL: the error is shown, nothing
\* is in flight and the flag is down
C26_Witness ==
    /\ page = "statement"
    /\ sheetApiUrl = <<>>
    /\ syncStatus.type = "error"
    /\ ~isSyncing
    /\ fetches = <<>>
    /\ InRange(orders, startDate, endDate) # {}

(***************************************************************************)
(* C27: every run of a writing handler ends.  The store settles every      *)
(* request it was sent, with a result or with an error: FairWrites is      *)
(* SpecWrites with that promise.                                           *)
(***************************************************************************)
FairWrites == SpecWrites /\ WF_vars(StoreResponds)

\* the answer to c, which succeeded or not, ends the run that awaited it
RunEnds(c, ok) ==
    /\ CompleteCall(c, ok)
    /\ \/ ordersSubmitting /\ ~ordersSubmitting'
       \/ isSubmitting /\ ~isSubmitting'

\* the dialog of the handler that issued c is closed after the step
DialogClosed(c) ==
    IF c.owner = "handleSavePayment" THEN paymentModal' = ClosedModal
    ELSE IF c.owner = "confirmDelete" THEN deleteConfirmation' = NoConfirmation
    ELSE IF c.owner = "handleSubmitOrder" THEN ~showOrderForm'
    ELSE editingSummary' = NoOrdersSummary /\ editingOrderItems' = <<>>

\* the dialog of the handler that issued c is open and holds what it held
DialogKept(c) ==
    IF c.owner = "handleSavePayment"
    THEN paymentModal.show /\ UNCHANGED <<paymentModal, paymentAmount>>
    ELSE IF c.owner = "confirmDelete"
    THEN deleteConfirmation.show /\ UNCHANGED deleteConfirmation
    ELSE IF c.owner = "handleSubmitOrder"
    THEN showOrderForm /\ UNCHANGED <<showOrderForm, selectedCustomer, orderItems>>
    ELSE /\ editingSummary # NoOrdersSummary
         /\ UNCHANGED <<editingSummary, editingOrderItems>>

DialogAfterRun ==
    \A c \in calls : \A ok \in BOOLEAN :
        RunEnds(c, ok) => IF ok THEN DialogClosed(c) ELSE DialogKept(c)

\* C27: a run of handleSavePayment, handleSaveEdit, confirmDelete or
\* handleSubmitOrder that has set isSubmitting sets it back to false, whether
\* the store calls succeed or fail; the step that ends the run on a failure
\* leaves the dialog open with what it held, and the step that ends it on
\* success closes the dialog.
C27_RunsEnd ==
    /\ [][DialogAfterRun]_vars
    /\ ordersSubmitting ~> ~ordersSubmitting
    /\ isSubmitting ~> ~isSubmitting

\* a payment run has failed: the flag is down, nothing was written and the
\* dialog is open on the summary the run worked on
C27_Witness ==
    /\ page = "customer"
    /\ lastSave.outcome = "issued"
    /\ lastSave.amount > 0
    /\ calls = {}
    /\ ~isSubmitting
    /\ orders = lastSave.pre.orders
    /\ paymentModal.show
    /\ paymentModal.summary = lastSave.summary

(***************************************************************************)
(* C28: saving a payment again after some of its updates failed.           *)
(***************************************************************************)
\* os with the amounts of the updates written
ApplyUpdates(os, updates) ==
    [i \in 1..Len(os) |->
        LET mine == {k \in DOMAIN updates : updates[k].orderId = os[i].id}
        IN  IF mine = {} THEN os[i]
            ELSE [os[i] EXCEPT !.amount_paid =
                     updates[CHOOSE k \in mine : TRUE].newAmountPaid]]

\* os is the snapshot with some of the updates written and some not
PartlyWritten(os, snapshot, updates) ==
    /\ Len(os) = Len(snapshot)
    /\ \A i \in DOMAIN os :
          os[i] = snapshot[i] \/ os[i] = ApplyUpdates(snapshot, updates)[i]

\* the updates of the last run's amount on the last run's snapshot
UpdatesOfSnapshot == Allocate(lastSave.summary, lastSave.amount)

\* the answer to c fulfils the Promise.all of handleSavePayment
PaymentRunSucceeds(c) ==
    /\ c.owner = "handleSavePayment"
    /\ c.live
    /\ CompleteCall(c, TRUE)
    /\ isSubmitting /\ ~isSubmitting'

\* C28: when a run of handleSavePayment succeeds on a store that held the
\* dialog's snapshot with none, some or all of the run's updates already
\* written (the first attempt, or the same amount saved again after a partial
\* failure), the store is the snapshot with every update written once: what a
\* first attempt that succeeded at once would have left.
C28_RetryIsIdempotent ==
    [][\A c \in calls :
          (/\ PaymentRunSucceeds(c)
           /\ PartlyWritten(lastSave.pre.orders, lastSave.summary.orders,
                            UpdatesOfSnapshot))
              => orders' = ApplyUpdates(lastSave.summary.orders,
                                        UpdatesOfSnapshot)]_vars

\* a payment of two updates has succeeded on a store in which an earlier
\* attempt from the same dialog had written one of them
C28_Witness ==
    /\ page = "customer"
    /\ lastSave.outcome = "issued"
    /\ Len(lastSave.updates) = 2
    /\ lastSave.pre.orders # lastSave.summary.orders
    /\ PartlyWritten(lastSave.pre.orders, lastSave.summary.orders,
                     lastSave.updates)
    /\ calls = {}
    /\ ~paymentModal.show
    /\ paymentAmount = <<>>
    /\ orders = ApplyUpdates(lastSave.summary.orders, lastSave.updates)
    /\ orders # lastSave.pre.orders

(***************************************************************************)
(* SpecSessions: two sessions record a payment on the same customer-day.   *)
(* The first is the Customer-detail page of the model; the second is the   *)
(* same page open in another browser, of which the model keeps the dialog: *)
(* the snapshot it was opened on, and the amount it saved.  Both run       *)
(* handleOpenPaymentModal and handleSavePayment as the code has them, each *)
(* once, and every store call succeeds; the updates of the second session  *)
(* reach the store one after the other without another write in between.   *)
(***************************************************************************)
InitSessions == InitWrites /\ page = "customer"

\* the second session opens the dialog on a summary of the store's orders
Session2Opens ==
    /\ ~session2.show
    /\ ~session2.saved
    /\ \E s \in Range(dailySummaries(customerOrders(orders, id))) :
          /\ RecordPaymentOffered(s)
          /\ session2' = [show |-> TRUE, summary |-> s, amount |-> 0,
                          saved |-> FALSE]
    /\ UNCHANGED <<orders, products, customers, nextId, boxConfigs, calls,
                   page, ordersVars, detailVars, statementVars, histVars>>

\* the second session saves an amount within the balance it sees; its
\* handleSavePayment allocates on its snapshot and its updates succeed
Session2Saves ==
    /\ session2.show
    /\ \E amount \in 1..MaxAmount :
          /\ ~NeedsConfirm(session2.summary, amount)
          /\ orders' = ApplyUpdates(orders, Allocate(session2.summary, amount))
          /\ session2' = [show |-> FALSE, summary |-> session2.summary,
                          amount |-> amount, saved |-> TRUE]
    /\ UNCHANGED <<products, customers, nextId, boxConfigs, calls, page,
                   ordersVars, detailVars, statementVars, histVars>>

SessionsRecordPayment == FirstRun /\ ClickRecordPayment

SessionsTypeAmount == AllocType

SessionsCancelPayment == AllocCancel

SessionsSavePayment == FirstRun /\ SavePaymentBounded

\* a store request succeeds
StoreSucceeds == \E c \in calls : CompleteCall(c, TRUE)

NextSessions ==
    \/ SessionsRecordPayment
    \/ SessionsTypeAmount
    \/ SessionsCancelPayment
    \/ SessionsSavePayment
    \/ StoreSucceeds
    \/ Session2Opens
    \/ Session2Saves

SpecSessions == InitSessions /\ [][NextSessions]_vars

(***************************************************************************)
(* C29: payments recorded side by side.                                    *)
(***************************************************************************)
\* both sessions have recorded a payment with success and nothing is on its
\* way to the store
BothRecorded ==
    /\ lastSave.outcome = "issued"
    /\ lastSave.amount \in 1..MaxAmount
    /\ calls = {}
    /\ ~isSubmitting
    /\ session2.saved

\* what the customer-day had been paid before either recording: the total of
\* the snapshot that was taken first
PaidBefore ==
    IF lastSave.summary.totalPaid <= session2.summary.totalPaid
    THEN lastSave.summary.totalPaid ELSE session2.summary.totalPaid

\* C29: when two payments have been recorded with success on the same
\* customer-day, in whatever order the dialogs were opened and the updates
\* stored, also when both dialogs were opened on the same snapshot, the stored
\* sum of amount_paid has grown by the sum of the two amounts.
C29_NoPaymentLost ==
    BothRecorded =>
        SumPaid(orders) = PaidBefore + lastSave.amount + session2.amount

\* the same of two recordings of which the later was opened on a store that
\* held the earlier
RecordedInTurnAddUp ==
    (/\ BothRecorded
     /\ \/ lastSave.summary.totalPaid = PaidBefore + session2.amount
        \/ session2.summary.totalPaid = PaidBefore + lastSave.amount)
        => SumPaid(orders) = PaidBefore + lastSave.amount + session2.amount

(***************************************************************************)
(* C30: the fallback of handleSavePayment.                                 *)
(***************************************************************************)
\* after the loop money is left and no update was made: the branch that
\* credits the most recently created order
FallbackTaken(summary, amountToPay) ==
    LET st == AllocateLoop(pendingOrders(summary), amountToPay)
    IN  Gt(st.amountToPay, 0) /\ Len(st.updates) = 0

\* C30: the dialog is open only on a summary that has an order with a
\* positive balance, so a run of handleSavePayment that accepts its amount
\* computes at least one update and does not take the fallback to the most
\* recently created order.
C30_FallbackNeverTaken ==
    /\ paymentModal.show => Len(pendingOrders(paymentModal.summary)) > 0
    /\ lastSave.outcome = "issued" =>
          /\ Len(pendingOrders(lastSave.summary)) > 0
          /\ Len(lastSave.updates) > 0
          /\ ~FallbackTaken(lastSave.summary, lastSave.amount)

\* a payment above the balance was confirmed and saved: the loop left money
\* over, which went to the last update
C30_Witness ==
    /\ page = "customer"
    /\ lastSave.outcome = "issued"
    /\ lastSave.asked
    /\ lastSave.answer
    /\ Len(lastSave.updates) > 0
    /\ Gt(AllocateLoop(pendingOrders(lastSave.summary),
                       lastSave.amount).amountToPay, 0)

=============================================================================
